---- MODULE Spec2Model ----
(***************************************************************************)
(* A model of the mindat downloader: the HTTP transport (http.py), the     *)
(* paginated client (mindat/api_client.py), the strategy resolver          *)
(* (repositories/localities_repo.py), the orchestrator                     *)
(* (mindat/services/download_service.py) and the writers (utils/io.py).    *)
(*                                                                         *)
(* JSON text is a sequence of string tokens, a Python dict is a sequence   *)
(* of <<key, value>> pairs in insertion order, and a file is              *)
(* [exists, data] with data the tokens on disk.                            *)
(***************************************************************************)
EXTENDS Integers, Sequences, FiniteSets, TLC

(* ------------------------------ bounds --------------------------------- *)
\* strategies in config.yaml's search_strategies (0..MaxStrat)
MaxStrat == 2
\* pages the service serves for one strategy's chain
MaxPages == 2
\* records in one page
MaxPageLen == 2
\* fresh records the unscripted service serves over the model's lifetime
MaxRecords == 2
\* pages of one related-list (locality minerals) fetch
MaxMinPages == 2
\* elements one page of a related list holds at most, where their order is checked
MaxMinLen == 2
\* runs of the program over the same output directory (a run and a re-run)
MaxRuns == 2
\* tokens one write(2) call puts on disk
ChunkLen == 4

(* --------------------------- program constants ------------------------- *)
\* config.py Retries.total
RetriesTotal == 6

(* ------------------------------- names --------------------------------- *)
RecName == <<"r1", "r2", "r3", "r4", "r5", "r6", "r7", "r8", "r9", "r10", "r11", "r12">>
UrlName == <<"u1", "u2", "u3", "u4", "u5", "u6">>
MinsTok == <<"mins0", "mins1", "mins2", "mins3", "mins4", "mins5", "mins6",
            "mins7", "mins8", "mins9", "mins10", "mins11", "mins12">>
NullNext == "null"
DetailDoc == "detaildoc"
Structural == {"{", "}", "[", "]", "\n"}
Keys == {"id", "txt", "detail", "locality_minerals", "results"}

(* --------------------------- Python dicts ------------------------------ *)
\* key in d
DictHas(d, k) == \E i \in 1..Len(d) : d[i][1] = k

\* d[k] for a key that is present
DictGet(d, k) == d[CHOOSE i \in 1..Len(d) : d[i][1] = k][2]

\* d[k] = v: an existing key keeps its place, a new key goes last
DictSet(d, k, v) ==
    IF DictHas(d, k)
    THEN [i \in 1..Len(d) |-> IF d[i][1] = k THEN <<k, v>> ELSE d[i]]
    ELSE Append(d, <<k, v>>)

DictKeys(d) == {d[i][1] : i \in 1..Len(d)}

(* ------------------------------ JSON text ------------------------------ *)
RECURSIVE DumpsPairs(_)
DumpsPairs(d) ==
    IF d = <<>> THEN <<>> ELSE <<d[1][1], d[1][2]>> \o DumpsPairs(Tail(d))

\* json.dumps(item): "{" key value key value ... "}"
DumpsRecord(item) == <<"{">> \o DumpsPairs(item) \o <<"}">>

RECURSIVE DumpsList(_)
DumpsList(items) ==
    IF items = <<>> THEN <<>> ELSE DumpsRecord(items[1]) \o DumpsList(Tail(items))

\* an accumulator document is [ok |-> TRUE, results |-> <<items>>]; a loaded
\* document of any other shape is [ok |-> FALSE, results |-> <<>>]
EmptyDoc == [ok |-> TRUE, results |-> <<>>]

\* json.dumps({"results": [...]}, indent=2)
DumpsDoc(doc) == <<"{", "results", "[">> \o DumpsList(doc.results) \o <<"]", "}">>

ParseError == [ok |-> FALSE, val |-> <<>>]

\* the pairs of the text between "{" and "}", folded into acc as a dict
\* (a repeated key keeps its place and takes the last value)
RECURSIVE ParsePairs(_, _)
ParsePairs(t, acc) ==
    IF t = <<>> THEN [ok |-> TRUE, val |-> acc]
    ELSE IF Len(t) < 2 \/ t[1] \in Structural \/ t[2] \in Structural THEN ParseError
    ELSE ParsePairs(SubSeq(t, 3, Len(t)), DictSet(acc, t[1], t[2]))

\* json.loads of one object
LoadsRecord(t) ==
    IF Len(t) >= 2 /\ t[1] = "{" /\ t[Len(t)] = "}"
    THEN ParsePairs(SubSeq(t, 2, Len(t) - 1), <<>>)
    ELSE ParseError

\* index of the first "}" at or after i, 0 when there is none
RECURSIVE FindClose(_, _)
FindClose(t, i) ==
    IF i > Len(t) THEN 0 ELSE IF t[i] = "}" THEN i ELSE FindClose(t, i + 1)

\* the objects of a JSON array body, one after the other
RECURSIVE LoadsList(_)
LoadsList(t) ==
    IF t = <<>> THEN [ok |-> TRUE, val |-> <<>>]
    ELSE LET c == FindClose(t, 1)
         IN  IF c = 0 THEN ParseError
             ELSE LET r == LoadsRecord(SubSeq(t, 1, c))
                      rest == LoadsList(SubSeq(t, c + 1, Len(t)))
                  IN  IF r.ok /\ rest.ok
                      THEN [ok |-> TRUE, val |-> <<r.val>> \o rest.val]
                      ELSE ParseError

\* json.loads of a whole {"results": [...]} document
LoadsDoc(t) ==
    IF /\ Len(t) >= 5
       /\ SubSeq(t, 1, 3) = <<"{", "results", "[">>
       /\ SubSeq(t, Len(t) - 1, Len(t)) = <<"]", "}">>
    THEN LoadsList(SubSeq(t, 4, Len(t) - 2))
    ELSE ParseError

\* the lines of a JSONL text: every piece up to and including a "\n",
\* and the unterminated rest (possibly empty) last
RECURSIVE FindNewline(_, _)
FindNewline(t, i) ==
    IF i > Len(t) THEN 0 ELSE IF t[i] = "\n" THEN i ELSE FindNewline(t, i + 1)

RECURSIVE SplitLines(_)
SplitLines(t) ==
    LET n == FindNewline(t, 1)
    IN  IF n = 0 THEN <<t>>
        ELSE <<SubSeq(t, 1, n - 1)>> \o SplitLines(SubSeq(t, n + 1, Len(t)))


(* ------------------------------- state --------------------------------- *)
VARIABLES
    cfg,        \* config: [mode, enrich, nstrat, strats, checkpoint_every]
    svc,        \* the remote service: [scripted, chains, kinds, counts, minlens]
    run,        \* number of the current run of the program
    pc,         \* where download_country_mines is
    si,         \* iter_mines_in_country: index of the strategy on trial
    seenAny,    \* iter_mines_in_country: seen_any
    started,    \* search_localities: the first request has been answered
    buf,        \* search_localities: records of the current page not yet yielded
    nextUrl,    \* search_localities: next_url
    loc,        \* download_country_mines: the record from the stream
    item,       \* download_country_mines: the record being built
    count,      \* download_country_mines: count
    mstarted,   \* list_locality_minerals: the first request has been answered
    mout,       \* list_locality_minerals: out
    mnext,      \* list_locality_minerals: next_url
    mpages,     \* pages the service has served for this related list
    acc,        \* JsonAccumulator.data
    wtext,      \* the text the writer is writing
    wpos,       \* how much of wtext is on disk
    out,        \* the output file
    tmp,        \* the .tmp file beside it
    nrec,       \* records the service has made up so far
    chain,      \* pages the service served for the strategy on trial
    startFile,  \* history: the output file when the run started
    yielded,    \* history: records the resolver yielded in this run
    persisted,  \* history: items whose persist step completed in this run
    cbLog,      \* history: arguments of the progress callback in this run
    lastReq,    \* history: the last request issued in this run
    winner,     \* history: the strategy that yielded the first record (0: none)
    err,        \* the error that ended the run ("" while there is none)
    minsErr,    \* the error list_locality_minerals raised for this record
    hpc,        \* get_json: where the call is
    hleft,      \* urllib3 Retry.total of the call
    hattempts,  \* network attempts of the call
    hresp,      \* the last network outcome of the call
    hfirst,     \* history: the first network outcome of the call
    hauthAt,    \* history: the attempt first answered 401/403 (0: none)
    hresult,    \* what get_json returned or raised
    geo,        \* scripts/export_geomaterials.py: main and the files it keeps
    fp,         \* scripts/export_geomaterials.py: the fetch_page call in progress
    cleaner,    \* scripts/clean_mindat_json.py: a clean_record computation
    merger      \* scripts/merging_geomaterils_iran_mines.py: DataMergerCleaner

pipeVars == <<cfg, svc, run, pc, si, seenAny, started, buf, nextUrl, loc, item,
              count, mstarted, mout, mnext, mpages, acc, wtext, wpos, out, tmp,
              nrec, chain, startFile, yielded, persisted, cbLog, lastReq, winner,
              err, minsErr>>
httpVars == <<hpc, hleft, hattempts, hresp, hfirst, hauthAt, hresult>>
scriptVars == <<geo, fp, cleaner, merger>>
vars == <<pipeVars, httpVars, scriptVars>>

NoFile == [exists |-> FALSE, data |-> <<>>]
NoRecord == <<>>

(* ------------------------------ http.py -------------------------------- *)
\* a forcelist that also retries authorization failures
StatusForcelistWithAuth == {401, 403, 429, 500, 502, 503, 504}

\* config.py Retries.status_forcelist
StatusForcelist == {429, 500, 502, 503, 504}

\* a final response as get_json sees it
Responses ==
    [kind : {"response"}, status : {200, 401, 403, 404, 413, 503},
     jsonCtype : BOOLEAN, parses : BOOLEAN, retryAfter : BOOLEAN]

\* get_json looking at the content type before the status
GetJsonContentFirst(r) ==
    IF ~r.jsonCtype THEN "MindatJSONError"
    ELSE IF r.status \in {401, 403} THEN "MindatAuthError"
    ELSE IF r.status # 200 THEN "MindatHTTPError"
    ELSE IF ~r.parses THEN "MindatJSONError"
    ELSE "ok"

\* HttpSession.get_json after session.get returned r: "ok" or the error raised
GetJson(r) ==
    IF r.status \in {401, 403} THEN "MindatAuthError"
    ELSE IF r.status # 200 THEN "MindatHTTPError"
    ELSE IF ~r.jsonCtype THEN "MindatJSONError"
    ELSE IF ~r.parses THEN "MindatJSONError"
    ELSE "ok"

\* a network attempt that ends without a response, and no attempt at all
Failure(kind) ==
    [kind |-> kind, status |-> 0, jsonCtype |-> FALSE, parses |-> FALSE,
     retryAfter |-> FALSE]
NoOutcome == Failure("none")

\* every way one network attempt can end
NetOutcomes == Responses \cup {Failure("connfail"), Failure("readtimeout")}

\* a Retry that takes every response for a retryable one
IsRetryAnyStatus(r, total) == r.kind = "response"

\* urllib3 Retry.is_retry for a GET under the Retry built in __init__: a
\* status of the forcelist, or a Retry-After header on 413/429/503 while
\* total is not 0
IsRetry(r, total) ==
    \/ r.status \in StatusForcelist
    \/ total # 0 /\ r.retryAfter /\ r.status \in {413, 429, 503}

\* what session.get raises when urllib3 gives up on connection or read errors
TransportError == "ConnectionError"

\* every way one get_json call of the pipeline can end
CallOutcomes == {GetJson(r) : r \in Responses} \cup {TransportError}
CallErrors == CallOutcomes \ {"ok"}

(* -------------------------- the remote service ------------------------- *)
RawKinds == {"plain", "keyed", "noid"}

\* the n-th record the service makes up
RawRecord(n, kind) ==
    CASE kind = "plain" -> << <<"id", RecName[n]>> >>
      [] kind = "keyed" -> << <<"id", RecName[n]>>, <<"detail", "raw">>,
                              <<"locality_minerals", "raw">> >>
      [] kind = "noid"  -> << <<"txt", RecName[n]>> >>

\* the name of a raw or enriched record
RecOf(rec) == rec[1][2]

\* the count hint of a body: a number as text, or none
NoCount == "null"
CountChoices == {NoCount, "0", "99"}

ListPage(items) ==
    [type |-> "list", rtype |-> "list", items |-> items, next |-> NullNext,
     count |-> NoCount]
DictPage(items, next) ==
    [type |-> "dict", rtype |-> "list", items |-> items, next |-> next,
     count |-> NoCount]
BadDictPage(rtype, next) ==
    [type |-> "dict", rtype |-> rtype, items |-> <<>>, next |-> next,
     count |-> NoCount]
ScalarPage ==
    [type |-> "other", rtype |-> "absent", items |-> <<>>, next |-> NullNext,
     count |-> NoCount]

Min(a, b) == IF a < b THEN a ELSE b

\* the record lists a fresh page can hold
ItemsChoices ==
    UNION { { [i \in 1..c |-> RawRecord(nrec + i, ks[i])] : ks \in [1..c -> svc.kinds] }
            : c \in 0..Min(MaxPageLen, MaxRecords - nrec) }

\* the locators a page numbered k of a chain can carry as next
NextChoices(k, cap) ==
    {NullNext, ""} \cup (IF k < cap THEN {UrlName[k]} ELSE {})

\* the page a scripted service keeps under a locator: the first request
\* gets page 1, the locator UrlName[j] gets page j + 1, however often it
\* is asked
UrlIndex(u) == CHOOSE j \in 1..Len(UrlName) : UrlName[j] = u
ScriptedPage ==
    IF started THEN svc.chains[si][UrlIndex(nextUrl) + 1]
    ELSE svc.chains[si][1]

\* the bodies the service can answer a primary request with
PrimaryBodies ==
    IF svc.scripted
    THEN {ScriptedPage}
    ELSE LET k == Len(chain) + 1
         IN  {ListPage(items) : items \in ItemsChoices}
             \cup {[DictPage(items, n) EXCEPT !.count = c] :
                       items \in ItemsChoices, n \in NextChoices(k, MaxPages),
                       c \in svc.counts}
             \cup {BadDictPage(rt, n) : rt \in {"absent", "other"},
                                          n \in {NullNext, UrlName[k]}}
             \cup {ScalarPage}

\* the i-th element of page k of a related list
MinName == << <<"m11", "m12", "m13", "m14">>, <<"m21", "m22", "m23", "m24">>,
             <<"m31", "m32", "m33", "m34">>, <<"m41", "m42", "m43", "m44">> >>
Mineral(k, i) == << <<"id", MinName[k][i]>> >>

\* the element lists page k of a related list can hold
MineralItems(k) == {[i \in 1..c |-> Mineral(k, i)] : c \in svc.minlens}

\* the bodies the service can answer a related-list request with
MineralBodies ==
    IF svc.scripted
    THEN {ListPage(<<Mineral(1, 1)>>)}
    ELSE LET k == Len(mpages) + 1
         IN  {ListPage(items) : items \in MineralItems(k)}
             \cup {DictPage(items, n) : items \in MineralItems(k),
                                       n \in NextChoices(k, MaxMinPages)}
             \cup {ScalarPage}

(* --------------------------- api_client.py ----------------------------- *)
\* _extract_page without its isinstance(data, list) branch
ExtractPageNoList(data) ==
    IF data.type = "dict" /\ data.rtype = "list"
    THEN <<data.items, data.count, data.next>>
    ELSE <<<<>>, NoCount, NullNext>>

\* _extract_page returning no next for an object page
ExtractPageDropNext(data) ==
    IF data.type = "list" THEN <<data.items, NoCount, NullNext>>
    ELSE IF data.type = "dict" /\ data.rtype = "list"
    THEN <<data.items, data.count, NullNext>>
    ELSE <<<<>>, NoCount, NullNext>>

\* _extract_page taking next from any object body, results list or not
ExtractPageAnyNext(data) ==
    IF data.type = "list" THEN <<data.items, NoCount, NullNext>>
    ELSE IF data.type = "dict" /\ data.rtype = "list"
    THEN <<data.items, data.count, data.next>>
    ELSE IF data.type = "dict" THEN <<<<>>, NoCount, data.next>>
    ELSE <<<<>>, NoCount, NullNext>>

\* _extract_page trusting the count hint: a count of 0 means no record and
\* no further page
ExtractPageTrustCount(data) ==
    IF data.type = "list" THEN <<data.items, NoCount, NullNext>>
    ELSE IF data.type = "dict" /\ data.rtype = "list"
    THEN IF data.count = "0" THEN <<<<>>, data.count, NullNext>>
         ELSE <<data.items, data.count, data.next>>
    ELSE <<<<>>, NoCount, NullNext>>

\* _extract_page: <<results, count, next>>
ExtractPage(data) ==
    IF data.type = "list" THEN <<data.items, NoCount, NullNext>>
    ELSE IF data.type = "dict" /\ data.rtype = "list"
    THEN <<data.items, data.count, data.next>>
    ELSE <<<<>>, NoCount, NullNext>>

\* a loop test `while next_url is not None`
TruthyNotNone(u) == u # NullNext

\* Python truth of next_url
Truthy(u) == u # NullNext /\ u # ""


(* ------------------------- variable groups ----------------------------- *)
genVars == <<si, seenAny, started, buf, nextUrl, chain, nrec, winner, yielded>>
minVars == <<mstarted, mout, mnext, mpages>>
fileVars == <<acc, wtext, wpos, out, tmp>>
recVars == <<loc, item, minsErr>>
runVars == <<cfg, svc, run, startFile>>

(* ------------------------- request parameters -------------------------- *)
\* config.py SaveCfg.checkpoint_every
CheckpointEvery == 1

\* config.py AppConfig.page_size, and the country main.py passes on
PageSize == "100"
Country == "Iran"

\* search_strategies of config.yaml: (param, value) pairs; ltype=60 and
\* txt=Mine are the resolver's docstring's, the others collide with a key
\* the resolver or the client sets
StrategyPool ==
    << <<"ltype", "60">>, <<"txt", "Mine">>, <<"page_size", "7">>, <<"country", "Peru">> >>
DefaultStrategies == SubSeq(StrategyPool, 1, Min(MaxStrat, Len(StrategyPool)))

\* a resolver that sends a strategy's pair alone, without format and country
BaseParamsPairOnly(i) == << <<cfg.strats[i][1], cfg.strats[i][2]>> >>

\* iter_mines_in_country: base | {strat["param"]: strat["value"]}
BaseParams(i) ==
    DictSet(<< <<"format", "json">>, <<"country", Country>> >>,
            cfg.strats[i][1], cfg.strats[i][2])

\* a client that leaves a page_size of base_params as it is
SearchParamsKeepGiven(base) ==
    IF DictHas(base, "page_size") THEN base ELSE DictSet(base, "page_size", PageSize)

\* search_localities: params = dict(base_params); params["page_size"] = ...
SearchParams(base) == DictSet(base, "page_size", PageSize)

\* base_params as the caller holds it after search_localities ran: the
\* client sets page_size on its own copy, dict(base_params)
BaseAfterSearch(base) == base

\* get_locality_detail: params with expand_geomaterials=True
DetailParams == << <<"format", "json">>, <<"expand", "geomaterials">> >>

\* list_locality_minerals: params of the first request
MineralsParams(id) ==
    << <<"format", "json">>, <<"locality", id>>, <<"page_size", PageSize>> >>

\* get_json(url): params or {}
NoParams == <<>>

\* the parameters the call sites hand to get_json
ParamsOf(kind, target) ==
    CASE kind = "list" -> SearchParams(BaseParams(si))
      [] kind = "detail" -> DetailParams
      [] kind = "minerals" -> MineralsParams(target)
      [] OTHER -> NoParams

\* a request as get_json receives it, and base_params as the caller holds it
\* after the call (search_localities works on a copy)
Request(kind, target) ==
    [kind |-> kind, strat |-> si, target |-> target,
     params |-> ParamsOf(kind, target),
     base |-> IF kind = "list" THEN BaseAfterSearch(BaseParams(si)) ELSE NoParams]
NoRequest == [kind |-> "none", strat |-> 0, target |-> "", params |-> <<>>, base |-> <<>>]

(* ----------------------- utils/io.py: construction --------------------- *)
\* a constructor that starts from an empty document whatever is on disk
LoadAccumulatorFresh(f) == EmptyDoc

\* json.loads of any text: whether it parses, the type of the value and the
\* type of its "results" member
LoadsJson(t) ==
    IF LoadsDoc(t).ok THEN [ok |-> TRUE, type |-> "dict", rtype |-> "list"]
    ELSE IF LoadsRecord(t).ok
    THEN [ok |-> TRUE, type |-> "dict",
          rtype |-> IF DictHas(LoadsRecord(t).val, "results") THEN "other" ELSE "absent"]
    ELSE IF Len(t) >= 2 /\ t[1] = "[" /\ t[Len(t)] = "]"
            /\ LoadsList(SubSeq(t, 2, Len(t) - 1)).ok
    THEN [ok |-> TRUE, type |-> "list", rtype |-> "absent"]
    ELSE IF Len(t) = 1 /\ t[1] \notin Structural
    THEN [ok |-> TRUE, type |-> "other", rtype |-> "absent"]
    ELSE [ok |-> FALSE, type |-> "none", rtype |-> "absent"]

\* a constructor that falls back to {"results": []} also when the file
\* parses to something that is no results document
LoadAccumulatorChecked(f) ==
    IF f.exists /\ LoadsDoc(f.data).ok
    THEN [ok |-> TRUE, results |-> LoadsDoc(f.data).val]
    ELSE EmptyDoc

\* JsonAccumulator.__init__: json.loads of an existing file, {"results": []}
\* when there is none or it does not parse
LoadAccumulator(f) ==
    IF ~f.exists THEN EmptyDoc
    ELSE IF LoadsDoc(f.data).ok THEN [ok |-> TRUE, results |-> LoadsDoc(f.data).val]
    ELSE IF LoadsJson(f.data).ok THEN [ok |-> FALSE, results |-> <<>>]
    ELSE EmptyDoc

\* self.data["results"].append(item) on a loaded value that is no results
\* document: no such key, no subscript by a string, or no append
AppendError(f) ==
    LET v == LoadsJson(f.data)
    IN  IF v.type = "dict" THEN (IF v.rtype = "absent" THEN "KeyError" ELSE "AttributeError")
        ELSE "TypeError"

\* DownloadService._writer, first lines of download_country_mines
MakeWriter ==
    /\ pc = "init"
    /\ acc' = IF cfg.mode = "json" THEN LoadAccumulator(out) ELSE EmptyDoc
    /\ count' = 0
    /\ pc' = "pull"
    /\ UNCHANGED <<runVars, genVars, minVars, recVars, wtext, wpos, out, tmp,
                   persisted, cbLog, lastReq, err, httpVars, scriptVars>>

(* ------------- localities_repo.py and api_client.py: the stream -------- *)
\* iter_mines_in_country: the strategy loop is over and nothing was seen
RepoExhausted ==
    /\ pc = "pull"
    /\ ~seenAny
    /\ si > cfg.nstrat
    /\ pc' = "returned"
    /\ UNCHANGED <<runVars, genVars, minVars, recVars, fileVars, count,
                   persisted, cbLog, lastReq, err, httpVars, scriptVars>>

\* a resolver that treats an error of the stream like an empty stream and
\* falls back to the next strategy
FetchPageFallback(kind, target) ==
    /\ lastReq' = (Request(kind, target))
    /\ \E o \in CallOutcomes :
          IF o = "ok"
          THEN \E body \in PrimaryBodies :
                  /\ buf' = ExtractPage(body)[1]
                  /\ nextUrl' = ExtractPage(body)[3]
                  /\ started' = TRUE
                  /\ chain' = Append(chain, body)
                  /\ nrec' = IF svc.scripted THEN nrec ELSE nrec + Len(body.items)
                  /\ UNCHANGED <<pc, err, si>>
          ELSE /\ si' = si + 1
               /\ started' = FALSE
               /\ chain' = <<>>
               /\ nextUrl' = NullNext
               /\ buf' = <<>>
               /\ UNCHANGED <<pc, err, nrec>>
    /\ UNCHANGED <<runVars, seenAny, winner, yielded, minVars, recVars,
                   fileVars, count, persisted, cbLog, httpVars, scriptVars>>

\* search_localities: a request and _extract_page of its answer
FetchPage(kind, target) ==
    /\ lastReq' = (Request(kind, target))
    /\ \E o \in CallOutcomes :
          IF o = "ok"
          THEN \E body \in PrimaryBodies :
                  /\ buf' = ExtractPage(body)[1]
                  /\ nextUrl' = ExtractPage(body)[3]
                  /\ started' = TRUE
                  /\ chain' = Append(chain, body)
                  /\ nrec' = IF svc.scripted THEN nrec ELSE nrec + Len(body.items)
                  /\ UNCHANGED <<pc, err>>
          ELSE /\ pc' = "raised"
               /\ err' = o
               /\ UNCHANGED <<buf, nextUrl, started, chain, nrec>>
    /\ UNCHANGED <<runVars, si, seenAny, winner, yielded, minVars, recVars,
                   fileVars, count, persisted, cbLog, httpVars, scriptVars>>

\* iter_mines_in_country opens the stream of strategy si and pulls from it:
\* search_localities issues its first request
SearchFirstRequest ==
    /\ pc = "pull"
    /\ si <= cfg.nstrat
    /\ ~started
    /\ FetchPage("list", "localities")

\* search_localities fetching the next page ahead, before the records of
\* the current page have been taken
SearchNextRequestAhead ==
    /\ pc = "pull"
    /\ started
    /\ Truthy(nextUrl)
    /\ lastReq' = (Request("next", nextUrl))
    /\ \E o \in CallOutcomes :
          IF o = "ok"
          THEN \E body \in PrimaryBodies :
                  /\ buf' = buf \o ExtractPage(body)[1]
                  /\ nextUrl' = ExtractPage(body)[3]
                  /\ started' = TRUE
                  /\ chain' = Append(chain, body)
                  /\ nrec' = IF svc.scripted THEN nrec ELSE nrec + Len(body.items)
                  /\ UNCHANGED <<pc, err>>
          ELSE /\ pc' = "raised"
               /\ err' = o
               /\ UNCHANGED <<buf, nextUrl, started, chain, nrec>>
    /\ UNCHANGED <<runVars, si, seenAny, winner, yielded, minVars, recVars,
                   fileVars, count, persisted, cbLog, httpVars, scriptVars>>

\* search_localities remembering the locators it has asked for, and ending
\* the stream at a locator seen before
SearchNextRequestVisited ==
    /\ pc = "pull"
    /\ started
    /\ buf = <<>>
    /\ Truthy(nextUrl)
    /\ IF \E i \in 1..(Len(chain) - 1) : chain[i].next = nextUrl
       THEN /\ nextUrl' = NullNext
            /\ UNCHANGED <<runVars, pc, si, started, chain, buf, nrec, seenAny,
                           winner, yielded, minVars, recVars, fileVars, count,
                           persisted, cbLog, lastReq, err, httpVars, scriptVars>>
       ELSE FetchPage("next", nextUrl)

\* search_localities: while next_url, the follow-up request
SearchNextRequest ==
    /\ pc = "pull"
    /\ started
    /\ buf = <<>>
    /\ Truthy(nextUrl)
    /\ FetchPage("next", nextUrl)

\* download_country_mines enriching whatever enrich says
YieldRecordAlwaysEnrich ==
    /\ pc = "pull"
    /\ started
    /\ buf # <<>>
    /\ loc' = Head(buf)
    /\ item' = Head(buf)
    /\ buf' = Tail(buf)
    /\ seenAny' = TRUE
    /\ winner' = si
    /\ yielded' = Append(yielded, Head(buf))
    /\ minsErr' = ""
    /\ pc' = "detail"
    /\ UNCHANGED <<runVars, si, started, nextUrl, chain, nrec, minVars, fileVars,
                   count, persisted, cbLog, lastReq, err, httpVars, scriptVars>>

\* iter_mines_in_country consuming the record it peeks at without yielding it
YieldRecordDropFirst ==
    /\ pc = "pull"
    /\ started
    /\ buf # <<>>
    /\ buf' = Tail(buf)
    /\ seenAny' = TRUE
    /\ winner' = si
    /\ IF seenAny
       THEN /\ loc' = Head(buf)
            /\ item' = Head(buf)
            /\ yielded' = Append(yielded, Head(buf))
            /\ minsErr' = ""
            /\ pc' = IF cfg.enrich THEN "detail" ELSE "persist"
       ELSE UNCHANGED <<loc, item, yielded, minsErr, pc>>
    /\ UNCHANGED <<runVars, si, started, nextUrl, chain, nrec, minVars, fileVars,
                   count, persisted, cbLog, lastReq, err, httpVars, scriptVars>>

\* search_localities yields the next record of the page, iter_mines_in_country
\* yields it on, download_country_mines copies it
YieldRecord ==
    /\ pc = "pull"
    /\ started
    /\ buf # <<>>
    /\ loc' = Head(buf)
    /\ item' = Head(buf)
    /\ buf' = Tail(buf)
    /\ seenAny' = TRUE
    /\ winner' = si
    /\ yielded' = Append(yielded, Head(buf))
    /\ minsErr' = ""
    /\ pc' = IF cfg.enrich THEN "detail" ELSE "persist"
    /\ UNCHANGED <<runVars, si, started, nextUrl, chain, nrec, minVars, fileVars,
                   count, persisted, cbLog, lastReq, err, httpVars, scriptVars>>

\* iter_mines_in_country without its break: the next strategy is tried even
\* after records were seen
StreamEndNoBreak ==
    /\ pc = "pull"
    /\ started
    /\ buf = <<>>
    /\ ~Truthy(nextUrl)
    /\ si' = si + 1
    /\ started' = FALSE
    /\ chain' = <<>>
    /\ nextUrl' = NullNext
    /\ UNCHANGED <<runVars, pc, seenAny, buf, nrec, winner, yielded, minVars, recVars,
                   fileVars, count, persisted, cbLog, lastReq, err, httpVars, scriptVars>>

\* iter_mines_in_country leaving the strategy loop after the first stream,
\* empty or not
StreamEndAlwaysBreak ==
    /\ pc = "pull"
    /\ started
    /\ buf = <<>>
    /\ ~Truthy(nextUrl)
    /\ pc' = "returned"
    /\ UNCHANGED <<si, started, chain, nextUrl>>
    /\ UNCHANGED <<runVars, seenAny, buf, nrec, winner, yielded, minVars, recVars,
                   fileVars, count, persisted, cbLog, lastReq, err, httpVars, scriptVars>>

\* search_localities is exhausted: iter_mines_in_country breaks when it has
\* seen a record, and goes on to the next strategy when it has not
StreamEnd ==
    /\ pc = "pull"
    /\ started
    /\ buf = <<>>
    /\ ~Truthy(nextUrl)
    /\ IF seenAny
       THEN /\ pc' = "returned"
            /\ UNCHANGED <<si, started, chain, nextUrl>>
       ELSE /\ si' = si + 1
            /\ started' = FALSE
            /\ chain' = <<>>
            /\ nextUrl' = NullNext
            /\ UNCHANGED pc
    /\ UNCHANGED <<runVars, seenAny, buf, nrec, winner, yielded, minVars, recVars,
                   fileVars, count, persisted, cbLog, lastReq, err, httpVars, scriptVars>>

(* ---------------- download_service.py: the enrichment ------------------ *)
\* the exceptions Python's "except Exception" catches
PyExceptions == CallErrors \cup {"KeyError", "TypeError", "AttributeError"}
\* an except clause that names one error class only
CaughtOnlyHttpError(e) == e = "MindatHTTPError"
CaughtByEnrichment(e) == e \in PyExceptions

\* the detail call wrapped in its own fallback: on an error the record goes
\* on without its detail
FetchDetailGuarded ==
    /\ pc = "detail"
    /\ IF ~DictHas(loc, "id")
       THEN /\ pc' = "raised"
            /\ err' = "KeyError"
            /\ UNCHANGED <<item, lastReq, minVars>>
       ELSE /\ lastReq' = (Request("detail", DictGet(loc, "id")))
            /\ \E o \in CallOutcomes :
                  /\ item' = IF o = "ok" THEN DictSet(item, "detail", DetailDoc) ELSE item
                  /\ pc' = "minerals"
                  /\ mstarted' = FALSE
                  /\ mout' = <<>>
                  /\ mnext' = NullNext
                  /\ mpages' = <<>>
                  /\ UNCHANGED err
    /\ UNCHANGED <<runVars, genVars, loc, minsErr, fileVars, count, persisted,
                   cbLog, httpVars, scriptVars>>

\* an enrichment that leaves a record without id as it is and persists it
FetchDetailSkipNoId ==
    /\ pc = "detail"
    /\ ~DictHas(loc, "id")
    /\ pc' = "persist"
    /\ UNCHANGED <<runVars, genVars, loc, item, lastReq, err, minVars, minsErr,
                   fileVars, count, persisted, cbLog, httpVars, scriptVars>>

\* get_locality_detail(loc["id"]); item["detail"] = detail
FetchDetail ==
    /\ pc = "detail"
    /\ IF ~DictHas(loc, "id")
       THEN /\ pc' = "raised"
            /\ err' = "KeyError"
            /\ UNCHANGED <<item, lastReq, minVars>>
       ELSE /\ lastReq' = (Request("detail", DictGet(loc, "id")))
            /\ \E o \in CallOutcomes :
                  IF o = "ok"
                  THEN /\ item' = DictSet(item, "detail", DetailDoc)
                       /\ pc' = "minerals"
                       /\ mstarted' = FALSE
                       /\ mout' = <<>>
                       /\ mnext' = NullNext
                       /\ mpages' = <<>>
                       /\ UNCHANGED err
                  ELSE /\ pc' = "raised"
                       /\ err' = o
                       /\ UNCHANGED <<item, minVars>>
    /\ UNCHANGED <<runVars, genVars, loc, minsErr, fileVars, count, persisted,
                   cbLog, httpVars, scriptVars>>

\* list_locality_minerals: one request and _extract_page of its answer; an
\* error leaves through download_country_mines' try/except
FetchMinerals ==
    /\ pc = "minerals"
    /\ ~mstarted \/ Truthy(mnext)
    /\ lastReq' = (Request(IF mstarted THEN "minerals_next" ELSE "minerals",
                                        IF mstarted THEN mnext ELSE DictGet(loc, "id")))
    /\ \E o \in CallOutcomes :
          IF o = "ok"
          THEN \E body \in MineralBodies :
                  /\ mout' = mout \o ExtractPage(body)[1]
                  /\ mnext' = ExtractPage(body)[3]
                  /\ mstarted' = TRUE
                  /\ mpages' = Append(mpages, body)
                  /\ UNCHANGED <<pc, err, minsErr>>
          ELSE IF CaughtByEnrichment(o)
          THEN /\ minsErr' = o
               /\ pc' = "persist"
               /\ mstarted' = FALSE
               /\ mout' = <<>>
               /\ mnext' = NullNext
               /\ mpages' = <<>>
               /\ UNCHANGED err
          ELSE /\ pc' = "raised"
               /\ err' = o
               /\ UNCHANGED <<minsErr, minVars>>
    /\ UNCHANGED <<runVars, genVars, loc, item, fileVars, count, persisted,
                   cbLog, httpVars, scriptVars>>

\* list_locality_minerals returning after its first page
MineralsDoneFirstPage ==
    /\ pc = "minerals"
    /\ mstarted
    /\ item' = DictSet(item, "locality_minerals", MinsTok[Len(mout) + 1])
    /\ pc' = "persist"
    /\ mstarted' = FALSE
    /\ mout' = <<>>
    /\ mnext' = NullNext
    /\ mpages' = <<>>
    /\ UNCHANGED <<runVars, genVars, loc, minsErr, fileVars, count,
                   persisted, cbLog, lastReq, err, httpVars, scriptVars>>

\* list_locality_minerals returns; item["locality_minerals"] = mins
MineralsDone ==
    /\ pc = "minerals"
    /\ mstarted
    /\ ~Truthy(mnext)
    /\ item' = DictSet(item, "locality_minerals", MinsTok[Len(mout) + 1])
    /\ pc' = "persist"
    /\ mstarted' = FALSE
    /\ mout' = <<>>
    /\ mnext' = NullNext
    /\ mpages' = <<>>
    /\ UNCHANGED <<runVars, genVars, loc, minsErr, fileVars, count,
                   persisted, cbLog, lastReq, err, httpVars, scriptVars>>


(* ----------------------- utils/io.py: the writers ---------------------- *)
\* the next write(2) of the text being written
NextChunk == SubSeq(wtext, wpos + 1, Min(wpos + ChunkLen, Len(wtext)))

\* append_and_save handing write_json the new item instead of self.data
AppendAndSaveItemOnly ==
    /\ pc = "persist"
    /\ cfg.mode = "json"
    /\ acc' = [acc EXCEPT !.results = Append(@, item)]
    /\ wtext' = DumpsDoc([ok |-> TRUE, results |-> <<item>>])
    /\ wpos' = 0
    /\ tmp' = [exists |-> TRUE, data |-> <<>>]
    /\ pc' = "writing_tmp"
    /\ UNCHANGED <<runVars, genVars, minVars, recVars, out, count, persisted,
                   cbLog, lastReq, err, httpVars, scriptVars>>

\* append_and_save skipping an item whose id is already in the document
AppendAndSaveDedup ==
    /\ pc = "persist"
    /\ cfg.mode = "json"
    /\ IF acc.ok
       THEN /\ acc' = IF \E i \in 1..Len(acc.results) : acc.results[i][1] = item[1]
                      THEN acc
                      ELSE [acc EXCEPT !.results = Append(@, item)]
            /\ wtext' = DumpsDoc(acc')
            /\ wpos' = 0
            /\ tmp' = [exists |-> TRUE, data |-> <<>>]
            /\ pc' = "writing_tmp"
            /\ UNCHANGED err
       ELSE /\ pc' = "raised"
            /\ err' = "KeyError"
            /\ UNCHANGED <<acc, wtext, wpos, tmp>>
    /\ UNCHANGED <<runVars, genVars, minVars, recVars, out, count, persisted,
                   cbLog, lastReq, httpVars, scriptVars>>

\* append_and_save writing the document only at every checkpoint_every-th
\* record
AppendAndSaveAtCheckpoint ==
    /\ pc = "persist"
    /\ cfg.mode = "json"
    /\ IF acc.ok
       THEN /\ acc' = [acc EXCEPT !.results = Append(@, item)]
            /\ IF Len(acc'.results) % cfg.checkpoint_every = 0
               THEN /\ wtext' = DumpsDoc(acc')
                    /\ wpos' = 0
                    /\ tmp' = [exists |-> TRUE, data |-> <<>>]
                    /\ pc' = "writing_tmp"
                    /\ UNCHANGED persisted
               ELSE /\ pc' = "progress"
                    /\ persisted' = Append(persisted, item)
                    /\ UNCHANGED <<wtext, wpos, tmp>>
            /\ UNCHANGED err
       ELSE /\ pc' = "raised"
            /\ err' = "KeyError"
            /\ UNCHANGED <<acc, wtext, wpos, tmp, persisted>>
    /\ UNCHANGED <<runVars, genVars, minVars, recVars, out, count,
                   cbLog, lastReq, httpVars, scriptVars>>

\* JsonAccumulator.append_and_save up to AtomicWriter.write_json opening the
\* temp file: self.data["results"].append(item), json.dumps, open(tmp, "w")
AppendAndSave ==
    /\ pc = "persist"
    /\ cfg.mode = "json"
    /\ IF acc.ok
       THEN /\ acc' = [acc EXCEPT !.results = Append(@, item)]
            /\ wtext' = DumpsDoc(acc')
            /\ wpos' = 0
            /\ tmp' = [exists |-> TRUE, data |-> <<>>]
            /\ pc' = "writing_tmp"
            /\ UNCHANGED err
       ELSE /\ pc' = "raised"
            /\ err' = AppendError(out)
            /\ UNCHANGED <<acc, wtext, wpos, tmp>>
    /\ UNCHANGED <<runVars, genVars, minVars, recVars, out, count, persisted,
                   cbLog, lastReq, httpVars, scriptVars>>

\* write_json writing to self.path itself instead of the temp file
WriteTmpInPlace ==
    /\ pc = "writing_tmp"
    /\ wpos < Len(wtext)
    /\ tmp' = [tmp EXCEPT !.data = @ \o NextChunk]
    /\ out' = [exists |-> TRUE, data |-> tmp.data \o NextChunk]
    /\ wpos' = wpos + Len(NextChunk)
    /\ UNCHANGED <<runVars, genVars, minVars, recVars, acc, wtext, count,
                   persisted, cbLog, lastReq, err, pc, httpVars, scriptVars>>

\* tmp.write_text: the next piece of the document reaches the temp file
WriteTmp ==
    /\ pc = "writing_tmp"
    /\ wpos < Len(wtext)
    /\ tmp' = [tmp EXCEPT !.data = @ \o NextChunk]
    /\ wpos' = wpos + Len(NextChunk)
    /\ UNCHANGED <<runVars, genVars, minVars, recVars, acc, wtext, out, count,
                   persisted, cbLog, lastReq, err, pc, httpVars, scriptVars>>

\* tmp.replace(self.path): the rename puts the whole temp file in place
ReplaceTmp ==
    /\ pc = "writing_tmp"
    /\ wpos = Len(wtext)
    /\ out' = tmp
    /\ tmp' = NoFile
    /\ persisted' = Append(persisted, item)
    /\ pc' = "progress"
    /\ UNCHANGED <<runVars, genVars, minVars, recVars, acc, wtext, wpos, count,
                   cbLog, lastReq, err, httpVars, scriptVars>>

\* JsonlWriter.write_one: open(out, "a") creates the file when there is none
WriteOneOpen ==
    /\ pc = "persist"
    /\ cfg.mode = "jsonl"
    /\ out' = [exists |-> TRUE, data |-> out.data]
    /\ wtext' = DumpsRecord(item) \o <<"\n">>
    /\ wpos' = 0
    /\ pc' = "writing_out"
    /\ UNCHANGED <<runVars, genVars, minVars, recVars, acc, tmp, count,
                   persisted, cbLog, lastReq, err, httpVars, scriptVars>>

\* f.write / flush: the next piece of the line reaches the end of the file
WriteOut ==
    /\ pc = "writing_out"
    /\ wpos < Len(wtext)
    /\ out' = [out EXCEPT !.data = @ \o NextChunk]
    /\ wpos' = wpos + Len(NextChunk)
    /\ UNCHANGED <<runVars, genVars, minVars, recVars, acc, wtext, tmp, count,
                   persisted, cbLog, lastReq, err, pc, httpVars, scriptVars>>

\* the with block closes the file: write_one returns
CloseOut ==
    /\ pc = "writing_out"
    /\ wpos = Len(wtext)
    /\ persisted' = Append(persisted, item)
    /\ pc' = "progress"
    /\ UNCHANGED <<runVars, genVars, minVars, recVars, fileVars, count, cbLog,
                   lastReq, err, httpVars, scriptVars>>

(* ------------------ download_service.py: the loop's tail --------------- *)
\* the callback called before the count is advanced
ProgressBeforeIncrement ==
    /\ pc = "progress"
    /\ count' = count + 1
    /\ cbLog' = Append(cbLog, count)
    /\ pc' = "pull"
    /\ UNCHANGED <<runVars, genVars, minVars, recVars, fileVars, persisted,
                   lastReq, err, httpVars, scriptVars>>

\* count += 1; progress_cb(count)
Progress ==
    /\ pc = "progress"
    /\ count' = count + 1
    /\ cbLog' = Append(cbLog, count + 1)
    /\ pc' = "pull"
    /\ UNCHANGED <<runVars, genVars, minVars, recVars, fileVars, persisted,
                   lastReq, err, httpVars, scriptVars>>

(* ------------------------ the process and its runs --------------------- *)
Running == pc \notin {"returned", "raised", "crashed"}

\* the memory of a process that is not running
NoMemory ==
    /\ si' = 1
    /\ seenAny' = FALSE
    /\ started' = FALSE
    /\ buf' = <<>>
    /\ nextUrl' = NullNext
    /\ loc' = NoRecord
    /\ item' = NoRecord
    /\ count' = 0
    /\ mstarted' = FALSE
    /\ mout' = <<>>
    /\ mnext' = NullNext
    /\ mpages' = <<>>
    /\ acc' = EmptyDoc
    /\ wtext' = <<>>
    /\ wpos' = 0
    /\ chain' = <<>>
    /\ yielded' = <<>>
    /\ cbLog' = <<>>
    /\ lastReq' = NoRequest
    /\ winner' = 0
    /\ minsErr' = ""

\* the process is killed where it stands (main.py catches nothing): its
\* memory is gone, the files stay as they are
Crash ==
    /\ Running
    /\ pc' = "crashed"
    /\ NoMemory
    /\ UNCHANGED <<runVars, out, tmp, nrec, persisted, err, httpVars, scriptVars>>

\* the user runs the program again over the same output directory
Restart ==
    /\ ~Running
    /\ run < MaxRuns
    /\ run' = run + 1
    /\ pc' = "init"
    /\ NoMemory
    /\ startFile' = out
    /\ persisted' = <<>>
    /\ err' = ""
    /\ UNCHANGED <<cfg, svc, out, tmp, nrec, httpVars, scriptVars>>

(* ------------------------------ the runs ------------------------------- *)
HttpIdle ==
    /\ hpc = "idle"
    /\ hleft = RetriesTotal
    /\ hattempts = 0
    /\ hresp = NoOutcome
    /\ hfirst = NoOutcome
    /\ hauthAt = 0
    /\ hresult = "none"

\* the scripts of src/scripts are not running
NoGeoPage == [results |-> <<>>, next |-> "None"]
NoResult == [kind |-> "none", page |-> NoGeoPage]
FpIdle == [pc |-> "idle", url |-> "", retries |-> 0, attempt |-> 0,
           sleeps |-> <<>>, errors |-> <<>>, raised |-> "", result |-> NoResult]
GeoIdle ==
    [pc |-> "off", run |-> 0, how |-> "", ends |-> <<>>, pages |-> 0,
     all_data |-> <<>>, current_url |-> "", page_count |-> 0,
     page_data |-> NoGeoPage,
     dataFile |-> [exists |-> FALSE, ok |-> TRUE, data |-> <<>>],
     urlFile |-> [exists |-> FALSE, text |-> ""]]
CleanerIdle == [pc |-> "off", rec |-> <<>>, prefer_nested |-> TRUE,
                cleaned |-> <<>>, again |-> <<>>]
NoStats == [localities_loaded |-> 0, merged_records |-> 0,
            duplicates_removed |-> 0, orphaned_geomaterials |-> 0]
MergerIdle == [pc |-> "off", file |-> <<>>, localities_data |-> <<>>, done |-> 0,
               merged_data |-> <<>>, stats |-> NoStats]
ScriptsIdle ==
    /\ geo = GeoIdle
    /\ fp = FpIdle
    /\ cleaner = CleanerIdle
    /\ merger = MergerIdle

RunInit ==
    /\ run = 1
    /\ pc = "init"
    /\ si = 1
    /\ seenAny = FALSE
    /\ started = FALSE
    /\ buf = <<>>
    /\ nextUrl = NullNext
    /\ loc = NoRecord
    /\ item = NoRecord
    /\ count = 0
    /\ mstarted = FALSE
    /\ mout = <<>>
    /\ mnext = NullNext
    /\ mpages = <<>>
    /\ acc = EmptyDoc
    /\ wtext = <<>>
    /\ wpos = 0
    /\ out = NoFile
    /\ tmp = NoFile
    /\ nrec = 0
    /\ chain = <<>>
    /\ startFile = NoFile
    /\ yielded = <<>>
    /\ persisted = <<>>
    /\ cbLog = <<>>
    /\ lastReq = NoRequest
    /\ winner = 0
    /\ err = ""
    /\ minsErr = ""

\* main.py builds the service from config.yaml; the output directory is new
Init ==
    /\ cfg \in [mode : {"json", "jsonl"}, enrich : BOOLEAN, nstrat : 0..MaxStrat,
               strats : {DefaultStrategies},
               checkpoint_every : {CheckpointEvery}]
    /\ svc = [scripted |-> FALSE, chains |-> <<>>, kinds |-> {"plain", "keyed"},
              counts |-> {NoCount}, minlens |-> {0, 1}]
    /\ RunInit
    /\ HttpIdle
    /\ ScriptsIdle

\* one run of download_country_mines
RunNext ==
    \/ MakeWriter
    \/ RepoExhausted
    \/ SearchFirstRequest
    \/ SearchNextRequest
    \/ YieldRecord
    \/ StreamEnd
    \/ FetchDetail
    \/ FetchMinerals
    \/ MineralsDone
    \/ AppendAndSave
    \/ WriteTmp
    \/ ReplaceTmp
    \/ WriteOneOpen
    \/ WriteOut
    \/ CloseOut
    \/ Progress

Next ==
    \/ RunNext
    \/ Crash
    \/ Restart

Spec == Init /\ [][Next]_vars


(* ------------------- http.py: one get_json call at a time -------------- *)
\* get_json is called: session.get starts with the Retry built in __init__
HttpCall ==
    /\ hpc = "idle"
    /\ hpc' = "sending"
    /\ hleft' = RetriesTotal
    /\ hattempts' = 0
    /\ hresp' = NoOutcome
    /\ hfirst' = NoOutcome
    /\ hauthAt' = 0
    /\ hresult' = "none"
    /\ UNCHANGED <<pipeVars, scriptVars>>

\* one network attempt of session.get and what urllib3 and get_json make of
\* it: a retry (Retry.increment) while the budget lasts, the response handed
\* to get_json otherwise (raise_on_status=False hands over the last response
\* of an exhausted budget), MaxRetryError on an exhausted connection budget
HttpAttempt ==
    /\ hpc = "sending"
    /\ \E r \in NetOutcomes :
          /\ hattempts' = hattempts + 1
          /\ hresp' = r
          /\ hfirst' = IF hattempts = 0 THEN r ELSE hfirst
          /\ hauthAt' = IF hauthAt = 0 /\ r.status \in {401, 403}
                        THEN hattempts + 1 ELSE hauthAt
          /\ IF r.kind # "response"
             THEN IF hleft - 1 < 0
                  THEN /\ hpc' = "done"
                       /\ hresult' = TransportError
                       /\ UNCHANGED hleft
                  ELSE /\ hleft' = hleft - 1
                       /\ UNCHANGED <<hpc, hresult>>
             ELSE IF IsRetry(r, hleft) /\ hleft - 1 >= 0
                  THEN /\ hleft' = hleft - 1
                       /\ UNCHANGED <<hpc, hresult>>
                  ELSE /\ hpc' = "done"
                       /\ hresult' = GetJson(r)
                       /\ UNCHANGED hleft
    /\ UNCHANGED <<pipeVars, scriptVars>>

\* the caller has the result; the session is ready for the next call
HttpReturn ==
    /\ hpc = "done"
    /\ hpc' = "idle"
    /\ UNCHANGED <<hleft, hattempts, hresp, hfirst, hauthAt, hresult, pipeVars, scriptVars>>

InitHttp ==
    /\ cfg = [mode |-> "json", enrich |-> TRUE, nstrat |-> 0,
              strats |-> DefaultStrategies,
              checkpoint_every |-> CheckpointEvery]
    /\ svc = [scripted |-> FALSE, chains |-> <<>>, kinds |-> {"plain", "keyed"},
              counts |-> {NoCount}, minlens |-> {0, 1}]
    /\ RunInit
    /\ HttpIdle
    /\ ScriptsIdle

NextHttp ==
    \/ HttpCall
    \/ HttpAttempt
    \/ HttpReturn

SpecHttp == InitHttp /\ [][NextHttp]_vars


(* ---------------- the end-to-end scenario of the spec ------------------ *)
\* the second strategy's stream: a page of 5 records, then a page of 3
E2EFirstPage == [i \in 1..5 |-> RawRecord(i, "plain")]
E2ESecondPage == [i \in 1..3 |-> RawRecord(5 + i, "plain")]

\* strategies [ltype=60, txt=Mine] against a service that answers the first
\* with no record and the second with the two pages; one run, no prior file
InitE2E ==
    /\ cfg \in [mode : {"json", "jsonl"}, enrich : BOOLEAN, nstrat : {2},
               strats : {DefaultStrategies},
               checkpoint_every : {CheckpointEvery}]
    /\ \E empty \in {ListPage(<<>>), DictPage(<<>>, NullNext)} :
          svc = [scripted |-> TRUE,
                 chains |-> << <<empty>>,
                               <<DictPage(E2EFirstPage, UrlName[1]),
                                 DictPage(E2ESecondPage, NullNext)>> >>,
                 kinds |-> {"plain"},
                 counts |-> {NoCount}, minlens |-> {0, 1}]
    /\ RunInit
    /\ HttpIdle
    /\ ScriptsIdle

\* the run of the scenario: the strategy list is never exhausted in it
E2ENext ==
    \/ MakeWriter
    \/ SearchFirstRequest
    \/ SearchNextRequest
    \/ YieldRecord
    \/ StreamEnd
    \/ FetchDetail
    \/ FetchMinerals
    \/ MineralsDone
    \/ AppendAndSave
    \/ WriteTmp
    \/ ReplaceTmp
    \/ WriteOneOpen
    \/ WriteOut
    \/ CloseOut
    \/ Progress

SpecE2E == InitE2E /\ [][E2ENext]_vars


(* ------------- the accumulating writer over an existing file ----------- *)
\* records of an earlier download found in the output file
PriorRecord(n) == << <<"id", RecName[10 + n]>> >>

\* the files the output path can hold when the program starts: none, a
\* results document of 0..2 records, a document cut short, an empty file,
\* and JSON that is no results document: an object without results, an
\* object whose results is no list, a bare list, a bare string
PreFiles ==
    {NoFile}
    \cup {[exists |-> TRUE, data |-> DumpsDoc([ok |-> TRUE, results |-> rs])] :
            rs \in {<<>>, <<PriorRecord(1)>>, <<PriorRecord(1), PriorRecord(2)>>}}
    \cup {[exists |-> TRUE,
           data |-> SubSeq(DumpsDoc([ok |-> TRUE, results |-> <<PriorRecord(1), PriorRecord(2)>>]), 1, 9)]}
    \cup {[exists |-> TRUE, data |-> DumpsRecord(PriorRecord(1))]}
    \cup {[exists |-> TRUE, data |-> <<>>]}
    \cup {[exists |-> TRUE, data |-> DumpsRecord(<< <<"results", "raw">> >>)]}
    \cup {[exists |-> TRUE, data |-> <<"[">> \o DumpsRecord(PriorRecord(1)) \o <<"]">>]}
    \cup {[exists |-> TRUE, data |-> <<"raw">>]}

\* JSON mode, no enrichment, one strategy, over any of these files
InitAcc ==
    /\ cfg = [mode |-> "json", enrich |-> FALSE, nstrat |-> 1,
              strats |-> DefaultStrategies,
              checkpoint_every |-> CheckpointEvery]
    /\ svc = [scripted |-> FALSE, chains |-> <<>>, kinds |-> {"plain"},
              counts |-> {NoCount}, minlens |-> {0, 1}]
    /\ RunInit
    /\ HttpIdle
    /\ ScriptsIdle

\* the file is put there before the program starts
PlaceFile ==
    /\ pc = "init"
    /\ run = 1
    /\ ~out.exists
    /\ ~startFile.exists
    /\ \E f \in PreFiles \ {NoFile} :
          /\ out' = f
          /\ startFile' = f
    /\ UNCHANGED <<cfg, svc, run, pc, genVars, minVars, recVars, acc, wtext, wpos,
                   tmp, count, persisted, cbLog, lastReq, err, httpVars, scriptVars>>

NextAcc ==
    \/ PlaceFile
    \/ MakeWriter
    \/ RepoExhausted
    \/ SearchFirstRequest
    \/ SearchNextRequest
    \/ YieldRecord
    \/ StreamEnd
    \/ AppendAndSave
    \/ WriteTmp
    \/ ReplaceTmp
    \/ Progress
    \/ Crash

SpecAcc == InitAcc /\ [][NextAcc]_vars


(* ------------- the stream under any configured strategies -------------- *)
\* JSON mode without enrichment, every list of strategies over the pool, any
\* count hint in an object page
InitParams ==
    /\ cfg \in [mode : {"json"}, enrich : {FALSE}, nstrat : 1..MaxStrat,
                strats : [1..MaxStrat -> {StrategyPool[i] : i \in 1..Len(StrategyPool)}],
                checkpoint_every : {CheckpointEvery}]
    /\ svc = [scripted |-> FALSE, chains |-> <<>>, kinds |-> {"plain"},
              counts |-> CountChoices, minlens |-> {0, 1}]
    /\ RunInit
    /\ HttpIdle
    /\ ScriptsIdle

NextParams ==
    \/ MakeWriter
    \/ RepoExhausted
    \/ SearchFirstRequest
    \/ SearchNextRequest
    \/ YieldRecord
    \/ StreamEnd
    \/ AppendAndSave
    \/ WriteTmp
    \/ ReplaceTmp
    \/ Progress

SpecParams == InitParams /\ [][NextParams]_vars


(* ------------- two runs against a service that does not change --------- *)
\* the records numbered a+1..b of the service
ServedRecords(a, b) == [i \in 1..(b - a) |-> RawRecord(a + i, "plain")]

\* what the service holds for the two strategies: a first stream of two
\* pages with 0..MaxPageLen records in all, a second stream of one page
TwiceChains ==
    { << <<DictPage(ServedRecords(0, a), UrlName[1]),
           DictPage(ServedRecords(a, a + b), NullNext)>>,
         <<ListPage(ServedRecords(a + b, a + b + c))>> >> :
         a \in 0..1, b \in 0..(MaxPageLen - 1), c \in 0..1 }

\* JSON mode, two strategies, the same answers in every run, no file yet
InitTwice ==
    /\ cfg \in [mode : {"json"}, enrich : BOOLEAN, nstrat : {2},
                strats : {DefaultStrategies},
               checkpoint_every : {CheckpointEvery}]
    /\ \E cs \in TwiceChains :
          svc = [scripted |-> TRUE, chains |-> cs, kinds |-> {"plain"},
                 counts |-> {NoCount}, minlens |-> {0, 1}]
    /\ RunInit
    /\ HttpIdle
    /\ ScriptsIdle

\* the runs of download_country_mines and the user starting it again
NextTwice ==
    \/ MakeWriter
    \/ RepoExhausted
    \/ SearchFirstRequest
    \/ SearchNextRequest
    \/ YieldRecord
    \/ StreamEnd
    \/ FetchDetail
    \/ FetchMinerals
    \/ MineralsDone
    \/ AppendAndSave
    \/ WriteTmp
    \/ ReplaceTmp
    \/ Progress
    \/ Restart

SpecTwice == InitTwice /\ [][NextTwice]_vars


(* ------------------- the related list of an enriched record ------------ *)
\* JSON mode with enrichment, one strategy, related-list pages of up to
\* MaxMinLen elements
InitMins ==
    /\ cfg = [mode |-> "json", enrich |-> TRUE, nstrat |-> 1,
              strats |-> DefaultStrategies,
              checkpoint_every |-> CheckpointEvery]
    /\ svc = [scripted |-> FALSE, chains |-> <<>>, kinds |-> {"plain"},
              counts |-> {NoCount}, minlens |-> 0..MaxMinLen]
    /\ RunInit
    /\ HttpIdle
    /\ ScriptsIdle

NextMins ==
    \/ MakeWriter
    \/ RepoExhausted
    \/ SearchFirstRequest
    \/ SearchNextRequest
    \/ YieldRecord
    \/ StreamEnd
    \/ FetchDetail
    \/ FetchMinerals
    \/ MineralsDone
    \/ AppendAndSave
    \/ WriteTmp
    \/ ReplaceTmp
    \/ Progress

SpecMins == InitMins /\ [][NextMins]_vars


(* ------------------ scripts/export_geomaterials.py --------------------- *)
\* fetch_page's default retries
GeoRetries == 3
\* pages of the geomaterials listing, runs of the script, and the retries a
\* lone fetch_page call is given
MaxGeoPages == 3
MaxGeoRuns == 2
MaxFetchRetries == 4

BaseUrl == "base"
GeoUrl == <<"g1", "g2", "g3", "g4", "g5">>
GeoName == <<"n1", "n2", "n3", "n4", "n5">>
DesiredFields == {"id", "longid", "name", "ima_formula", "entrytype_text",
                  "description_short", "elements", "sigelements", "occurrence"}

\* extract_desired_fields: the desired fields whose value is not None and
\* not one of "", 0, "0", []
DesiredPair(p) == p[1] \in DesiredFields /\ p[2] \notin {"None", "", "0", "[]"}
ExtractDesiredFields(raw) == SelectSeq(raw, DesiredPair)

\* main: the extracted items of a page that are not empty
NonEmptyItem(raw) == raw # <<>>
ProcessedItems(results) ==
    SelectSeq([i \in 1..Len(results) |-> ExtractDesiredFields(results[i])], NonEmptyItem)

\* page k of a listing of n pages: an item with an id and one that extracts
\* to nothing, and the locator of the page after it
GeoPage(k, n) ==
    [results |-> << << <<"id", GeoName[k]>>, <<"junk", "x">> >>,
                    << <<"id", "0">>, <<"junk", "x">> >> >>,
     next |-> IF k < n THEN GeoUrl[k] ELSE "None"]

\* the page the service holds at a locator
PageAt(url, n) ==
    IF url = BaseUrl THEN GeoPage(1, n)
    ELSE GeoPage(1 + (CHOOSE j \in 1..Len(GeoUrl) : GeoUrl[j] = url), n)

\* Python truth of a locator
GeoTruthy(u) == u \notin {"None", ""}

\* what an attempt of fetch_page can end in: a body, a RequestException
\* (requests.get or raise_for_status), or an error of another class
RequestExceptions == {"ConnectionError", "Timeout", "HTTPError"}
AttemptOutcomes == {"ok", "ValueError"} \cup RequestExceptions

\* fetch_page(url, retries) entered: range(retries) may be empty
FetchPageCalled(url, retries) ==
    IF retries = 0
    THEN [FpIdle EXCEPT !.pc = "returned", !.url = url, !.retries = retries,
                        !.result = [kind |-> "None", page |-> NoGeoPage]]
    ELSE [FpIdle EXCEPT !.pc = "try", !.url = url, !.retries = retries]

\* fetch_page sleeping after its last attempt too
FetchPageAttemptSleepLast ==
    /\ fp.pc = "try"
    /\ \E o \in AttemptOutcomes :
          fp' = IF o = "ok"
                THEN [fp EXCEPT !.pc = "returned",
                                !.result = [kind |-> "page", page |-> PageAt(fp.url, geo.pages)]]
                ELSE IF o \in RequestExceptions
                THEN [fp EXCEPT !.errors = Append(@, o), !.pc = "sleep"]
                ELSE [fp EXCEPT !.pc = "raised", !.raised = o]
    /\ UNCHANGED <<pipeVars, httpVars, geo, cleaner, merger>>

\* fetch_page: one pass of `for attempt in range(retries)` up to the return
\* or the sleep
FetchPageAttempt ==
    /\ fp.pc = "try"
    /\ \E o \in AttemptOutcomes :
          fp' = IF o = "ok"
                THEN [fp EXCEPT !.pc = "returned",
                                !.result = [kind |-> "page", page |-> PageAt(fp.url, geo.pages)]]
                ELSE IF o \in RequestExceptions
                THEN IF fp.attempt < fp.retries - 1
                     THEN [fp EXCEPT !.errors = Append(@, o), !.pc = "sleep"]
                     ELSE [fp EXCEPT !.errors = Append(@, o), !.pc = "returned",
                                     !.result = [kind |-> "None", page |-> NoGeoPage]]
                ELSE [fp EXCEPT !.pc = "raised", !.raised = o]
    /\ UNCHANGED <<pipeVars, httpVars, geo, cleaner, merger>>

\* time.sleep(2 ** attempt), then the next pass of the loop; `return None`
\* when the loop is over
FetchPageSleep ==
    /\ fp.pc = "sleep"
    /\ fp' = IF fp.attempt + 1 < fp.retries
             THEN [fp EXCEPT !.sleeps = Append(@, 2 ^ fp.attempt),
                             !.attempt = @ + 1,
                             !.pc = "try"]
             ELSE [fp EXCEPT !.sleeps = Append(@, 2 ^ fp.attempt),
                             !.attempt = @ + 1,
                             !.pc = "returned",
                             !.result = [kind |-> "None", page |-> NoGeoPage]]
    /\ UNCHANGED <<pipeVars, httpVars, geo, cleaner, merger>>

\* a caller other than main calls fetch_page with some url and retries
FetchPageCall ==
    /\ geo.pc = "off"
    /\ fp.pc \in {"idle", "returned", "raised"}
    /\ \E url \in {BaseUrl, GeoUrl[1]}, retries \in 0..MaxFetchRetries :
          fp' = FetchPageCalled(url, retries)
    /\ UNCHANGED <<pipeVars, httpVars, geo, cleaner, merger>>

InitFetchPage ==
    /\ cfg = [mode |-> "json", enrich |-> TRUE, nstrat |-> 0,
              strats |-> DefaultStrategies,
              checkpoint_every |-> CheckpointEvery]
    /\ svc = [scripted |-> FALSE, chains |-> <<>>, kinds |-> {"plain"},
              counts |-> {NoCount}, minlens |-> {0, 1}]
    /\ RunInit
    /\ HttpIdle
    /\ geo = [GeoIdle EXCEPT !.pages = MaxGeoPages]
    /\ fp = FpIdle
    /\ cleaner = CleanerIdle
    /\ merger = MergerIdle

NextFetchPage ==
    \/ FetchPageCall
    \/ FetchPageAttempt
    \/ FetchPageSleep

SpecFetchPage == InitFetchPage /\ [][NextFetchPage]_vars

\* load_existing_data: the list in DATA_FILE, [] when there is no file or
\* it does not parse
LoadExistingData(f) == IF f.exists /\ f.ok THEN f.data ELSE <<>>

\* load_last_url: the text of LAST_URL_FILE, None when there is no file or
\* it is empty
LoadLastUrl(f) == IF f.exists /\ f.text # "" THEN f.text ELSE "None"

\* save_progress: f.write(next_url if next_url else '')
UrlText(u) == IF GeoTruthy(u) THEN u ELSE ""

\* the user starts the script
GeoRun ==
    /\ geo.pc \in {"off", "done", "killed"}
    /\ geo.run < MaxGeoRuns
    /\ fp.pc = "idle"
    /\ geo' = [geo EXCEPT !.pc = "start", !.run = @ + 1, !.how = "",
                          !.all_data = <<>>, !.current_url = "",
                          !.page_count = 0, !.page_data = NoGeoPage]
    /\ UNCHANGED <<pipeVars, httpVars, fp, cleaner, merger>>

\* main up to `try`: load_existing_data, load_last_url() or BASE_URL
GeoLoad ==
    /\ geo.pc = "start"
    /\ geo' = [geo EXCEPT !.pc = "loop",
                          !.all_data = LoadExistingData(geo.dataFile),
                          !.current_url = IF LoadLastUrl(geo.urlFile) = "None"
                                          THEN BaseUrl
                                          ELSE LoadLastUrl(geo.urlFile),
                          !.page_count = 0]
    /\ UNCHANGED <<pipeVars, httpVars, fp, cleaner, merger>>

\* `while current_url`: page_count += 1 and fetch_page(current_url) is
\* entered, or the loop is over
GeoLoopTest ==
    /\ geo.pc = "loop"
    /\ IF GeoTruthy(geo.current_url)
       THEN /\ geo' = [geo EXCEPT !.pc = "fetch", !.page_count = @ + 1]
            /\ fp' = FetchPageCalled(geo.current_url, GeoRetries)
       ELSE /\ geo' = [geo EXCEPT !.pc = "summary", !.how = "complete"]
            /\ UNCHANGED fp
    /\ UNCHANGED <<pipeVars, httpVars, cleaner, merger>>

\* fetch_page is back: break on no page or no results, else
\* all_data.extend(processed_items); an error of another class is caught
\* by `except Exception`
GeoGotPage ==
    /\ geo.pc = "fetch"
    /\ fp.pc \in {"returned", "raised"}
    /\ fp' = FpIdle
    /\ geo' = IF fp.pc = "raised"
              THEN [geo EXCEPT !.pc = "finally", !.how = "error"]
              ELSE IF fp.result.kind = "None"
              THEN [geo EXCEPT !.pc = "summary", !.how = "failed"]
              ELSE IF fp.result.page.results = <<>>
              THEN [geo EXCEPT !.pc = "summary", !.how = "noresults"]
              ELSE [geo EXCEPT !.pc = "extended",
                               !.page_data = fp.result.page,
                               !.all_data = @ \o ProcessedItems(fp.result.page.results)]
    /\ UNCHANGED <<pipeVars, httpVars, cleaner, merger>>

\* progress.update(...); current_url = page_data.get('next')
GeoAdvance ==
    /\ geo.pc = "extended"
    /\ geo' = [geo EXCEPT !.pc = "save_data", !.current_url = geo.page_data.next]
    /\ UNCHANGED <<pipeVars, httpVars, fp, cleaner, merger>>

\* save_progress in the loop: json.dump(data) into DATA_FILE
GeoSaveData ==
    /\ geo.pc = "save_data"
    /\ geo' = [geo EXCEPT !.pc = "save_url",
                          !.dataFile = [exists |-> TRUE, ok |-> TRUE, data |-> geo.all_data]]
    /\ UNCHANGED <<pipeVars, httpVars, fp, cleaner, merger>>

\* save_progress in the loop: the next locator into LAST_URL_FILE; then the
\* stats line and time.sleep(1)
GeoSaveUrl ==
    /\ geo.pc = "save_url"
    /\ geo' = [geo EXCEPT !.pc = "loop",
                          !.urlFile = [exists |-> TRUE, text |-> UrlText(geo.current_url)]]
    /\ UNCHANGED <<pipeVars, httpVars, fp, cleaner, merger>>

\* after the loop, however it ended: the summary, then os.remove of
\* LAST_URL_FILE when it exists
GeoCleanup ==
    /\ geo.pc = "summary"
    /\ geo' = [geo EXCEPT !.pc = "finally",
                          !.urlFile = [exists |-> FALSE, text |-> ""]]
    /\ UNCHANGED <<pipeVars, httpVars, fp, cleaner, merger>>

\* finally: `if all_data: save_progress(all_data, current_url)`, its data
\* file; main returns when all_data is empty
GeoFinallyData ==
    /\ geo.pc = "finally"
    /\ geo' = IF geo.all_data # <<>>
              THEN [geo EXCEPT !.pc = "fin_url",
                               !.dataFile = [exists |-> TRUE, ok |-> TRUE,
                                             data |-> geo.all_data]]
              ELSE [geo EXCEPT !.pc = "done", !.ends = Append(@, geo.how)]
    /\ UNCHANGED <<pipeVars, httpVars, fp, cleaner, merger>>

\* finally: save_progress writes LAST_URL_FILE; main returns
GeoFinallyUrl ==
    /\ geo.pc = "fin_url"
    /\ geo' = [geo EXCEPT !.pc = "done",
                          !.ends = Append(@, geo.how),
                          !.urlFile = [exists |-> TRUE, text |-> UrlText(geo.current_url)]]
    /\ UNCHANGED <<pipeVars, httpVars, fp, cleaner, merger>>

\* Ctrl-C inside the try block, between any two steps: except
\* KeyboardInterrupt, then finally
GeoInterrupt ==
    /\ geo.pc \in {"loop", "fetch", "extended", "save_data", "save_url", "summary"}
    /\ geo' = [geo EXCEPT !.pc = "finally", !.how = "interrupted"]
    /\ fp' = FpIdle
    /\ UNCHANGED <<pipeVars, httpVars, cleaner, merger>>

\* Ctrl-C outside the try block (before it, or in the finally clause): the
\* process ends where it stands; a data file being written is left cut
GeoKill ==
    /\ geo.pc \in {"start", "finally", "fin_url"}
    /\ \E cut \in BOOLEAN :
          /\ cut => (geo.pc = "finally" /\ geo.all_data # <<>>)
          /\ geo' = [geo EXCEPT !.pc = "killed", !.how = "interrupted",
                                !.ends = Append(@, "interrupted"),
                                !.dataFile = IF cut
                                             THEN [exists |-> TRUE, ok |-> FALSE, data |-> <<>>]
                                             ELSE @]
    /\ UNCHANGED <<pipeVars, httpVars, fp, cleaner, merger>>

\* a new directory, a listing of 1..MaxGeoPages pages
InitGeo ==
    /\ cfg = [mode |-> "json", enrich |-> TRUE, nstrat |-> 0,
              strats |-> DefaultStrategies,
              checkpoint_every |-> CheckpointEvery]
    /\ svc = [scripted |-> FALSE, chains |-> <<>>, kinds |-> {"plain"},
              counts |-> {NoCount}, minlens |-> {0, 1}]
    /\ RunInit
    /\ HttpIdle
    /\ \E n \in 1..MaxGeoPages : geo = [GeoIdle EXCEPT !.pages = n]
    /\ fp = FpIdle
    /\ cleaner = CleanerIdle
    /\ merger = MergerIdle

NextGeo ==
    \/ GeoRun
    \/ GeoLoad
    \/ GeoLoopTest
    \/ FetchPageAttempt
    \/ FetchPageSleep
    \/ GeoGotPage
    \/ GeoAdvance
    \/ GeoSaveData
    \/ GeoSaveUrl
    \/ GeoCleanup
    \/ GeoFinallyData
    \/ GeoFinallyUrl
    \/ GeoInterrupt
    \/ GeoKill

SpecGeo == InitGeo /\ [][NextGeo]_vars


(* -------------------- scripts/clean_mindat_json.py --------------------- *)
\* fields of a record, where the cleaning of every shape is checked
MaxFields == 2

\* JSON values: None, booleans, numbers, strings, lists (opaque, empty or
\* not) and dicts of <<key, value>> pairs. A key is the sequence of the
\* names its text has between dots: "detail.name" is <<"detail", "name">>
Scalar(t, txt) == [t |-> t, s |-> txt, d |-> <<>>]
DictValue(pairs) == [t |-> "dict", s |-> "", d |-> pairs]
FalseValue == Scalar("bool", "False")
Scalars ==
    {Scalar("none", "None"), FalseValue, Scalar("bool", "True"),
     Scalar("num", "0"), Scalar("num", "1"),
     Scalar("str", ""), Scalar("str", " "), Scalar("str", "0"), Scalar("str", "x"),
     Scalar("list", "[]"), Scalar("list", "[x]")}
InnerDicts ==
    {DictValue(<<>>)} \cup {DictValue(<< <<(<<"a">>), v>> >>) : v \in Scalars}
CleanValues ==
    Scalars \cup {DictValue(<<>>)}
    \cup {DictValue(<< <<(<<"b">>), v>> >>) : v \in Scalars \cup InnerDicts}
CleanKeys == {<<"a">>, <<"b">>, <<"a", "b">>, <<"b", "a">>}

\* the records of up to n fields with distinct keys
RECURSIVE CleanRecords(_)
CleanRecords(n) ==
    IF n = 0 THEN {<<>>}
    ELSE CleanRecords(n - 1)
         \cup UNION {{Append(r, <<k, v>>) : k \in CleanKeys \ DictKeys(r), v \in CleanValues}
                        : r \in {q \in CleanRecords(n - 1) : Len(q) = n - 1}}

UniqueKeys(d) == \A i, j \in 1..Len(d) : d[i][1] = d[j][1] => i = j

\* v.strip() of the strings of the model
Strip(txt) == IF txt = " " THEN "" ELSE txt

\* is_empty_value taking False for empty too
IsEmptyValueFalsy(v) ==
    CASE v.t = "none" -> TRUE
      [] v.t = "bool" -> v.s = "False"
      [] v.t = "num" -> v.s = "0"
      [] v.t = "str" -> Strip(v.s) \in {"", "0"}
      [] v.t = "list" -> v.s = "[]"
      [] v.t = "dict" -> v.d = <<>>

\* is_empty_value
IsEmptyValue(v) ==
    CASE v.t = "none" -> TRUE
      [] v.t = "bool" -> FALSE
      [] v.t = "num" -> v.s = "0"
      [] v.t = "str" -> Strip(v.s) \in {"", "0"}
      [] v.t = "list" -> v.s = "[]"
      [] v.t = "dict" -> v.d = <<>>

\* {k: v for k, v in d.items() if not is_empty_value(v)}
NotEmptyPair(p) == ~IsEmptyValue(p[2])
DropEmpty(d) == SelectSeq(d, NotEmptyPair)

\* f"{parent}{sep}{k}" if parent else k
JoinKey(parent, k) == IF parent = <<>> THEN k ELSE parent \o k

\* out.update(extra)
RECURSIVE DictUpdate(_, _)
DictUpdate(out_, extra) ==
    IF extra = <<>> THEN out_
    ELSE DictUpdate(DictSet(out_, extra[1][1], extra[1][2]), Tail(extra))

\* flatten_dict, its loop over d.items() carried in acc_
RECURSIVE FlattenInto(_, _, _)
FlattenInto(acc_, d, parent) ==
    IF d = <<>> THEN acc_
    ELSE LET key == JoinKey(parent, d[1][1])
             v == d[1][2]
         IN  FlattenInto(IF v.t = "dict"
                         THEN DictUpdate(acc_, FlattenInto(<<>>, v.d, key))
                         ELSE DictSet(acc_, key, v),
                         Tail(d), parent)
FlattenDict(d, parent) == FlattenInto(<<>>, d, parent)

\* Python ==  between the values of the model: True == 1, False == 0
PyEq(a, b) ==
    \/ a = b
    \/ /\ {a.t, b.t} = {"bool", "num"}
       /\ {a.s, b.s} \in {{"True", "1"}, {"False", "0"}}

\* merge_with_preference
RECURSIVE MergeWithPreference(_, _, _)
MergeWithPreference(base, extra, prefer_nested) ==
    IF extra = <<>> THEN base
    ELSE LET k == extra[1][1]
             v == extra[1][2]
             step == IF DictHas(base, k)
                     THEN IF PyEq(DictGet(base, k), v) THEN base
                          ELSE IF prefer_nested THEN DictSet(base, k, v)
                          ELSE base
                     ELSE DictSet(base, k, v)
         IN  MergeWithPreference(step, Tail(extra), prefer_nested)

\* clean_record, step 2: the loop over pruned.items() building flat_accum
RECURSIVE FlatAccum(_, _, _)
FlatAccum(acc_, pruned, prefer_nested) ==
    IF pruned = <<>> THEN acc_
    ELSE FlatAccum(IF pruned[1][2].t = "dict"
                   THEN MergeWithPreference(acc_, FlattenDict(pruned[1][2].d, pruned[1][1]),
                                            prefer_nested)
                   ELSE acc_,
                   Tail(pruned), prefer_nested)

NotDictPair(p) == p[2].t # "dict"

\* clean_record
CleanRecord(rec, prefer_nested) ==
    LET pruned == DropEmpty(rec)
        flat_accum == FlatAccum(<<>>, pruned, prefer_nested)
        passthrough == SelectSeq(pruned, NotDictPair)
        merged == MergeWithPreference(passthrough, flat_accum, prefer_nested)
    IN  DropEmpty(merged)

\* clean_record(rec, prefer_nested) is called
CleanOnce ==
    /\ cleaner.pc = "start"
    /\ cleaner' = [cleaner EXCEPT !.pc = "cleaned",
                                  !.cleaned = CleanRecord(cleaner.rec, cleaner.prefer_nested)]
    /\ UNCHANGED <<pipeVars, httpVars, geo, fp, merger>>

\* clean_record is called on its own result
CleanAgain ==
    /\ cleaner.pc = "cleaned"
    /\ cleaner' = [cleaner EXCEPT !.pc = "done",
                                  !.again = CleanRecord(cleaner.cleaned, cleaner.prefer_nested)]
    /\ UNCHANGED <<pipeVars, httpVars, geo, fp, merger>>

\* any record of up to MaxFields fields, either preference
InitClean ==
    /\ cfg = [mode |-> "json", enrich |-> TRUE, nstrat |-> 0,
              strats |-> DefaultStrategies,
              checkpoint_every |-> CheckpointEvery]
    /\ svc = [scripted |-> FALSE, chains |-> <<>>, kinds |-> {"plain"},
              counts |-> {NoCount}, minlens |-> {0, 1}]
    /\ RunInit
    /\ HttpIdle
    /\ geo = GeoIdle
    /\ fp = FpIdle
    /\ merger = MergerIdle
    /\ \E r \in CleanRecords(MaxFields), pn \in BOOLEAN :
          cleaner = [CleanerIdle EXCEPT !.pc = "start", !.rec = r, !.prefer_nested = pn]

NextClean ==
    \/ CleanOnce
    \/ CleanAgain

SpecClean == InitClean /\ [][NextClean]_vars


(* ------------- scripts/merging_geomaterils_iran_mines.py --------------- *)
\* localities in the localities file
MaxLocalities == 3

ListValue(elems) == [t |-> "list", s |-> IF elems = <<>> THEN "[]" ELSE "[x]", d |-> elems]
Num(txt) == Scalar("num", txt)
Str(txt) == Scalar("str", txt)

\* the geomaterials file as loaded: geomaterials_lookup knows material 1
GeomaterialsLookup ==
    << <<Num("1"), << <<(<<"id">>), Num("1")>>, <<(<<"name">>), Str("x")>>,
                      <<(<<"occurrence">>), Str("x")>> >> >> >>
EssentialFields == {<<"id">>, <<"name">>, <<"longid">>, <<"entrytype_text">>, <<"ima_formula">>}

\* the fields clean_locality_data keeps, in the order the model walks them
DesiredLocalityFields ==
    << <<"id">>, <<"longid">>, <<"txt">>, <<"revtxtd">>, <<"description_short">>,
       <<"latitude">>, <<"longitude">>, <<"elements">>, <<"country">>,
       <<"dateadd">>, <<"datemodify">>, <<"geomaterials">> >>

\* the localities a file can hold: ids 7 and 8, an id of 0, no id, an id
\* under detail. only, and a list of geomaterial ids
LocalityChoices ==
    { << <<(<<"id">>), Num("7")>>, <<(<<"txt">>), Str("x")>> >>,
      << <<(<<"id">>), Num("8")>> >>,
      << <<(<<"id">>), Num("7")>>,
         <<(<<"geomaterials">>), ListValue(<<Num("1"), Num("2")>>)>> >>,
      << <<(<<"detail", "id">>), Num("7")>> >>,
      << <<(<<"id">>), Num("8")>>, <<(<<"detail", "id">>), Num("7")>> >>,
      << <<(<<"id">>), Num("0")>>, <<(<<"txt">>), Str("x")>> >>,
      << <<(<<"txt">>), Str("x")>> >> }

RECURSIVE LocalityFiles(_)
LocalityFiles(n) ==
    IF n = 0 THEN {<<>>}
    ELSE LocalityFiles(n - 1)
         \cup {Append(q, l) : q \in {f \in LocalityFiles(n - 1) : Len(f) = n - 1},
                              l \in LocalityChoices}

\* remove_duplicate_fields, its loop carried in acc_: a detail.* field is
\* kept under its main key only when the record has no such main field
RECURSIVE RemoveDuplicateFieldsInto(_, _, _)
RemoveDuplicateFieldsInto(acc_, rest, locality) ==
    IF rest = <<>> THEN acc_
    ELSE LET key == rest[1][1]
             value == rest[1][2]
         IN  RemoveDuplicateFieldsInto(
                 IF Len(key) >= 2 /\ key[1] = "detail"
                 THEN IF ~DictHas(locality, Tail(key))
                      THEN DictSet(acc_, Tail(key), value)
                      ELSE acc_
                 ELSE DictSet(acc_, key, value),
                 Tail(rest), locality)
RemoveDuplicateFields(locality) == RemoveDuplicateFieldsInto(<<>>, locality, locality)

\* value is None or value in ["", 0, "0", []] (Python ==: False == 0)
DroppedValue(v) ==
    \/ v.t = "none"
    \/ v.t = "str" /\ v.s \in {"", "0"}
    \/ v.t = "num" /\ v.s = "0"
    \/ v.t = "bool" /\ v.s = "False"
    \/ v.t = "list" /\ v.d = <<>> /\ v.s = "[]"

\* clean_locality_data
RECURSIVE KeepDesired(_, _, _)
KeepDesired(acc_, fields, cleaned) ==
    IF fields = <<>> THEN acc_
    ELSE KeepDesired(IF DictHas(cleaned, fields[1]) /\ ~DroppedValue(DictGet(cleaned, fields[1]))
                     THEN DictSet(acc_, fields[1], DictGet(cleaned, fields[1]))
                     ELSE acc_,
                     Tail(fields), cleaned)
CleanLocalityData(locality) ==
    KeepDesired(<<>>, DesiredLocalityFields, RemoveDuplicateFields(locality))

\* merge_geomaterials_info: the ids found in the lookup, as filtered
\* materials, and the ids that are missing
EssentialPair(p) == p[1] \in EssentialFields /\ ~(p[2].t = "none" \/ (p[2].t \in {"str", "num"} /\ p[2].s \in {"", "0"}) \/ p[2] = FalseValue)
RECURSIVE FoundMaterials(_)
FoundMaterials(ids) ==
    IF ids = <<>> THEN <<>>
    ELSE (IF DictHas(GeomaterialsLookup, ids[1])
             /\ SelectSeq(DictGet(GeomaterialsLookup, ids[1]), EssentialPair) # <<>>
          THEN << DictValue(SelectSeq(DictGet(GeomaterialsLookup, ids[1]), EssentialPair)) >>
          ELSE <<>>)
         \o FoundMaterials(Tail(ids))
MissingPair(v) == ~DictHas(GeomaterialsLookup, v)
MissingIds(ids) == SelectSeq(ids, MissingPair)
NotGeomaterials(p) == p[1] # <<"geomaterials">>

\* merge_geomaterials_info: the record it returns
MergeGeomaterialsInfo(locality) ==
    IF ~DictHas(locality, <<"geomaterials">>) THEN locality
    ELSE IF DictGet(locality, <<"geomaterials">>).t # "list" THEN locality
    ELSE LET ids == DictGet(locality, <<"geomaterials">>).d
             r1 == IF FoundMaterials(ids) # <<>>
                   THEN DictSet(locality, <<"geomaterials_details">>, ListValue(FoundMaterials(ids)))
                   ELSE locality
             r2 == IF MissingIds(ids) # <<>>
                   THEN DictSet(r1, <<"missing_geomaterial_ids">>, ListValue(MissingIds(ids)))
                   ELSE r1
             r3 == DictSet(r2, <<"geomaterial_ids">>, ListValue(ids))
         IN  SelectSeq(r3, NotGeomaterials)

\* merge_geomaterials_info: what it adds to stats['orphaned_geomaterials']
Orphaned(locality) ==
    IF DictHas(locality, <<"geomaterials">>) /\ DictGet(locality, <<"geomaterials">>).t = "list"
    THEN Len(MissingIds(DictGet(locality, <<"geomaterials">>).d))
    ELSE 0

\* `not cleaned_locality.get('id')`
HasId(cleaned) == DictHas(cleaned, <<"id">>)

\* load_localities_file: localities_data and stats['localities_loaded']
LoadLocalitiesFile ==
    /\ merger.pc = "new"
    /\ merger' = [merger EXCEPT !.pc = "loaded",
                                !.localities_data = merger.file,
                                !.stats.localities_loaded = Len(merger.file)]
    /\ UNCHANGED <<pipeVars, httpVars, geo, fp, cleaner>>

\* process_data: one pass of `for locality in self.localities_data`
ProcessLocality ==
    /\ merger.pc = "loaded"
    /\ merger.done < Len(merger.localities_data)
    /\ LET cleaned_locality == CleanLocalityData(merger.localities_data[merger.done + 1])
       IN  merger' = IF ~HasId(cleaned_locality)
                     THEN [merger EXCEPT !.done = @ + 1]
                     ELSE [merger EXCEPT
                              !.done = @ + 1,
                              !.merged_data = Append(@, MergeGeomaterialsInfo(cleaned_locality)),
                              !.stats.orphaned_geomaterials = @ + Orphaned(cleaned_locality)]
    /\ UNCHANGED <<pipeVars, httpVars, geo, fp, cleaner>>

\* process_data after the loop: merged_records and duplicates_removed
ProcessDataEnd ==
    /\ merger.pc = "loaded"
    /\ merger.done = Len(merger.localities_data)
    /\ merger' = [merger EXCEPT
                     !.pc = "done",
                     !.stats.merged_records = Len(merger.merged_data),
                     !.stats.duplicates_removed =
                         merger.stats.localities_loaded - Len(merger.merged_data)]
    /\ UNCHANGED <<pipeVars, httpVars, geo, fp, cleaner>>

\* a new DataMergerCleaner and a localities file of up to MaxLocalities
InitMerger ==
    /\ cfg = [mode |-> "json", enrich |-> TRUE, nstrat |-> 0,
              strats |-> DefaultStrategies,
              checkpoint_every |-> CheckpointEvery]
    /\ svc = [scripted |-> FALSE, chains |-> <<>>, kinds |-> {"plain"},
              counts |-> {NoCount}, minlens |-> {0, 1}]
    /\ RunInit
    /\ HttpIdle
    /\ geo = GeoIdle
    /\ fp = FpIdle
    /\ cleaner = CleanerIdle
    /\ \E f \in LocalityFiles(MaxLocalities) :
          merger = [MergerIdle EXCEPT !.pc = "new", !.file = f]

NextMerger ==
    \/ LoadLocalitiesFile
    \/ ProcessLocality
    \/ ProcessDataEnd

SpecMerger == InitMerger /\ [][NextMerger]_vars


(* ------------------- any configured checkpoint cadence ----------------- *)
\* values of save.checkpoint_every in config.yaml
MaxCheckpoint == 3

\* either output format, no enrichment, one strategy, any cadence
InitCheckpoint ==
    /\ cfg \in [mode : {"json", "jsonl"}, enrich : {FALSE}, nstrat : {1},
                strats : {DefaultStrategies},
                checkpoint_every : 1..MaxCheckpoint]
    /\ svc = [scripted |-> FALSE, chains |-> <<>>, kinds |-> {"plain"},
              counts |-> {NoCount}, minlens |-> {0, 1}]
    /\ RunInit
    /\ HttpIdle
    /\ ScriptsIdle

NextCheckpoint ==
    \/ MakeWriter
    \/ RepoExhausted
    \/ SearchFirstRequest
    \/ SearchNextRequest
    \/ YieldRecord
    \/ StreamEnd
    \/ AppendAndSave
    \/ WriteTmp
    \/ ReplaceTmp
    \/ WriteOneOpen
    \/ WriteOut
    \/ CloseOut
    \/ Progress

SpecCheckpoint == InitCheckpoint /\ [][NextCheckpoint]_vars


(* --------------- a service whose next locators form a cycle ------------ *)
\* pages search_localities may fetch from one stream before the run is cut
MaxCyclePages == 5

\* streams of two or three pages of one record each; the last page's next is
\* nothing, or a locator the stream has been asked for before
CycleChains ==
    { [k \in 1..n |-> DictPage(<<RawRecord(k, "plain")>>,
                               IF k < n THEN UrlName[k] ELSE back)] :
          n \in 2..3, back \in {NullNext, UrlName[1], UrlName[2]} }

\* the chain of the stream ends in a locator, so following next never ends
Cyclic(c) == Truthy(c[Len(c)].next)

\* one strategy, JSONL, no enrichment, against such a service
InitCycle ==
    /\ cfg = [mode |-> "jsonl", enrich |-> FALSE, nstrat |-> 1,
              strats |-> DefaultStrategies,
              checkpoint_every |-> CheckpointEvery]
    /\ \E c \in CycleChains :
          /\ c[Len(c)].next \in {NullNext} \cup {UrlName[j] : j \in 1..(Len(c) - 1)}
          /\ svc = [scripted |-> TRUE, chains |-> <<c>>, kinds |-> {"plain"},
                    counts |-> {NoCount}, minlens |-> {0, 1}]
    /\ RunInit
    /\ HttpIdle
    /\ ScriptsIdle

\* the follow-up request while the run has not been cut
SearchNextRequestCapped ==
    /\ Len(chain) < MaxCyclePages
    /\ SearchNextRequest

\* the run, cut after MaxCyclePages pages of a stream
NextCycle ==
    \/ MakeWriter
    \/ SearchFirstRequest
    \/ SearchNextRequestCapped
    \/ YieldRecord
    \/ StreamEnd
    \/ WriteOneOpen
    \/ WriteOut
    \/ CloseOut
    \/ Progress

SpecCycle == InitCycle /\ [][NextCycle]_vars


(* ------------------ a stream with records that have no id -------------- *)
\* either output format, enrichment on or off, one strategy; the service
\* serves records with and without an id key
InitNoId ==
    /\ cfg \in [mode : {"json", "jsonl"}, enrich : BOOLEAN, nstrat : {1},
                strats : {DefaultStrategies},
                checkpoint_every : {CheckpointEvery}]
    /\ svc = [scripted |-> FALSE, chains |-> <<>>, kinds |-> {"plain", "noid"},
              counts |-> {NoCount}, minlens |-> {0, 1}]
    /\ RunInit
    /\ HttpIdle
    /\ ScriptsIdle

NextNoId ==
    \/ MakeWriter
    \/ RepoExhausted
    \/ SearchFirstRequest
    \/ SearchNextRequest
    \/ YieldRecord
    \/ StreamEnd
    \/ FetchDetail
    \/ FetchMinerals
    \/ MineralsDone
    \/ AppendAndSave
    \/ WriteTmp
    \/ ReplaceTmp
    \/ WriteOneOpen
    \/ WriteOut
    \/ CloseOut
    \/ Progress

SpecNoId == InitNoId /\ [][NextNoId]_vars


(* ============================ the claims =============================== *)
Last(q) == q[Len(q)]
Front(q) == SubSeq(q, 1, Len(q) - 1)

\* the records of the pages the service served, in page and in-page order
RECURSIVE Flatten(_)
Flatten(pages) ==
    IF pages = <<>> THEN <<>> ELSE pages[1].items \o Flatten(Tail(pages))

\* every page served is an object {results: [...], next}
AllResultsPages(pages) ==
    \A i \in 1..Len(pages) : pages[i].type = "dict" /\ pages[i].rtype = "list"

\* a locator that leads on: neither null/absent nor empty
LeadsOn(u) == u \notin {NullNext, ""}

\* the records of the newline-terminated lines of a JSONL text that are
\* well-formed JSON objects, in file order
RECURSIVE GoodOf(_)
GoodOf(lines) ==
    IF lines = <<>> THEN <<>>
    ELSE (IF LoadsRecord(lines[1]).ok THEN <<LoadsRecord(lines[1]).val>> ELSE <<>>)
         \o GoodOf(Tail(lines))
GoodLines(t) == GoodOf(Front(SplitLines(t)))

\* the records a reader loads from the output file in the configured format
Reloaded(f) ==
    IF cfg.mode = "json" THEN LoadsDoc(f.data).val ELSE GoodLines(f.data)

(* C1: when the first answer to search_localities is a bare array, the      *)
(* stream is that array: every element yielded once and in order (what was  *)
(* yielded followed by what is still pending is the array), no follow-up    *)
(* request is issued or answered, and the stream ends after the last one.   *)
C1_BareArrayStream ==
    (started /\ chain[1].type = "list") =>
        /\ Len(chain) = 1
        /\ ~(lastReq.kind = "next" /\ lastReq.strat = si)
        /\ ~LeadsOn(nextUrl)
        /\ yielded \o buf = chain[1].items
        /\ (pc = "returned" => yielded = chain[1].items)

C1_Witness ==
    /\ pc = "returned"
    /\ started
    /\ chain[1].type = "list"
    /\ Len(yielded) = 2

(* C2: for a chain of {results, next} pages the stream is the concatenation *)
(* of the pages' results in page and in-page order (nothing dropped,        *)
(* nothing twice), next is followed until it is null/absent/empty, and the  *)
(* number of records yielded is the sum of the pages' results lengths.      *)
C2_ChainStream ==
    (started /\ AllResultsPages(chain)) =>
        /\ yielded \o buf = Flatten(chain)
        /\ nextUrl = Last(chain).next
        /\ \A i \in 1..(Len(chain) - 1) : LeadsOn(chain[i].next)
        /\ (pc = "returned" =>
               /\ ~LeadsOn(Last(chain).next)
               /\ yielded = Flatten(chain)
               /\ Len(yielded) = Len(Flatten(chain)))

C2_Witness ==
    /\ pc = "returned"
    /\ Len(chain) = 2
    /\ AllResultsPages(chain)
    /\ Len(chain[1].items) = 1
    /\ Len(chain[2].items) = 1
    /\ Len(yielded) = 2

(* C3: once a strategy has produced a record it stays the strategy on       *)
(* trial, no request is issued for a later strategy, and what the resolver  *)
(* yields is exactly that strategy's stream, in order and in full when the  *)
(* resolver ends; before any strategy has produced a record nothing has     *)
(* been yielded.                                                            *)
C3_FirstWinnerExclusive ==
    /\ (winner = 0 => yielded = <<>>)
    /\ (winner # 0 =>
           /\ si = winner
           /\ lastReq.strat <= winner
           /\ yielded \o buf = Flatten(chain)
           /\ (pc = "returned" =>
                  /\ yielded = Flatten(chain)
                  /\ ~LeadsOn(nextUrl)))

C3_Witness ==
    /\ pc = "returned"
    /\ cfg.nstrat = 2
    /\ winner = 1
    /\ Len(yielded) = 2
    /\ Len(chain) = 2


\* the text ends with these tokens
EndsWith(t, tail) ==
    /\ Len(t) >= Len(tail)
    /\ SubSeq(t, Len(t) - Len(tail) + 1, Len(t)) = tail

\* the writer has put this item last in the output file
WrittenLast(it) ==
    IF cfg.mode = "json"
    THEN /\ out.exists
         /\ out.data = DumpsDoc(acc)
         /\ acc.results # <<>>
         /\ Last(acc.results) = it
    ELSE /\ out.exists
         /\ EndsWith(out.data, DumpsRecord(it) \o <<"\n">>)

(* C4, as stated: a record whose related-list fetch raised is persisted     *)
(* without the locality_minerals key.                                       *)
C4_NoMineralsKey ==
    (minsErr # "" /\ pc = "progress") => ~DictHas(Last(persisted), "locality_minerals")

(* C4, amended: no error of a related-list request ends the run; the record *)
(* whose related-list fetch raised is handed to the writer as the raw       *)
(* record plus its detail and nothing else (so it has a locality_minerals   *)
(* key only when the raw record brought one, with the raw value), the       *)
(* writer puts it last in the output file, the progress callback is called  *)
(* with the cumulative count, and the loop goes on pulling.                 *)
C4_EnrichmentIsolated ==
    /\ (pc = "raised" /\ err \in CallErrors =>
           lastReq.kind \notin {"minerals", "minerals_next"})
    /\ (minsErr # "" =>
           /\ item = DictSet(loc, "detail", DetailDoc)
           /\ pc \in {"persist", "writing_tmp", "writing_out", "progress", "pull",
                      "returned", "raised"}
           /\ (pc \in {"progress", "pull", "returned", "raised"} =>
                  /\ persisted # <<>>
                  /\ Last(persisted) = item
                  /\ WrittenLast(item))
           /\ (pc \in {"pull", "returned", "raised"} =>
                  /\ cbLog # <<>>
                  /\ Last(cbLog) = Len(persisted)
                  /\ count = Len(persisted)))

C4_Witness ==
    /\ pc = "pull"
    /\ minsErr = "MindatAuthError"
    /\ count = 1
    /\ buf # <<>>

(* C5: starting from no output file, after every append_and_save the        *)
(* reloaded file holds exactly the records appended so far, in append       *)
(* order (and there is no file before the first append).                    *)
C5_AccumulatorReload ==
    (cfg.mode = "json" /\ ~startFile.exists) =>
        IF persisted = <<>>
        THEN ~out.exists
        ELSE /\ out.exists
             /\ LoadsDoc(out.data).ok
             /\ LoadsDoc(out.data).val = persisted

C5_Witness ==
    /\ cfg.mode = "json"
    /\ ~startFile.exists
    /\ pc = "progress"
    /\ Len(persisted) = 2

(* C6: at every step of write_json, and after a crash at any step, the      *)
(* output path holds no file or a complete document: while the temp file    *)
(* is being written it is still the complete previous document (or absent), *)
(* and once write_json has returned it is the complete new one.             *)
C6_NeverPartial ==
    cfg.mode = "json" =>
        /\ (out.exists => LoadsDoc(out.data).ok)
        /\ (pc = "writing_tmp" =>
               out = IF persisted = <<>> THEN startFile
                     ELSE [exists |-> TRUE,
                           data |-> DumpsDoc([acc EXCEPT !.results = Front(@)])])
        /\ (pc = "progress" => out = [exists |-> TRUE, data |-> DumpsDoc(acc)])

C6_Witness ==
    /\ cfg.mode = "json"
    /\ pc = "crashed"
    /\ out.exists
    /\ tmp.exists
    /\ tmp.data # <<>>
    /\ ~LoadsDoc(tmp.data).ok

(* C7: after the write_one calls of a run the file holds one more           *)
(* well-formed, newline-terminated JSON line per call, in call order,       *)
(* after the lines it held before, and what it held before is unchanged.    *)
C7_AppendOnlyLines ==
    (cfg.mode = "jsonl" /\ pc \in {"progress", "pull", "detail", "minerals",
                                   "persist", "returned", "raised"}) =>
        /\ Len(out.data) >= Len(startFile.data)
        /\ SubSeq(out.data, 1, Len(startFile.data)) = startFile.data
        /\ GoodLines(out.data) = GoodLines(startFile.data) \o persisted
        /\ (persisted # <<>> => Last(out.data) = "\n")

NamesOf(q) == [i \in 1..Len(q) |-> RecOf(q[i])]

(* C8: in the end-to-end scenario in JSON mode, when the run returns the    *)
(* output document holds exactly the 8 records of the second strategy's     *)
(* two pages, in the order served (the raw records themselves when          *)
(* enrichment is off).                                                      *)
C8_EndToEnd ==
    (pc = "returned" /\ cfg.mode = "json") =>
        /\ out.exists
        /\ LoadsDoc(out.data).ok
        /\ NamesOf(LoadsDoc(out.data).val) = NamesOf(E2EFirstPage \o E2ESecondPage)
        /\ (~cfg.enrich => LoadsDoc(out.data).val = E2EFirstPage \o E2ESecondPage)

C8_Witness ==
    /\ pc = "returned"
    /\ cfg.mode = "json"
    /\ cfg.enrich
    /\ Len(LoadsDoc(out.data).val) = 8

PriorRecords ==
    IF ~startFile.exists THEN <<>>
    ELSE IF cfg.mode = "json" THEN LoadsDoc(startFile.data).val
    ELSE GoodLines(startFile.data)

(* C10: whenever the run stops, the output file is loadable and holds the   *)
(* records whose persist step completed, in order (after those it held at   *)
(* the start): in JSON mode a complete document, in JSONL mode complete     *)
(* well-formed lines except possibly an unterminated last one.              *)
C10_InterruptedArtifact ==
    IF cfg.mode = "json"
    THEN out.exists =>
            /\ LoadsDoc(out.data).ok
            /\ LoadsDoc(out.data).val = PriorRecords \o persisted
    ELSE /\ \A i \in 1..(Len(SplitLines(out.data)) - 1) :
               LoadsRecord(SplitLines(out.data)[i]).ok
         /\ Len(GoodLines(out.data)) >= Len(PriorRecords) + Len(persisted)
         /\ SubSeq(GoodLines(out.data), 1, Len(PriorRecords) + Len(persisted))
               = PriorRecords \o persisted


\* this step issues a request for a page of the primary stream
PrimaryRequestStep ==
    /\ pc = "pull"
    /\ lastReq' # lastReq
    /\ lastReq'.kind \in {"list", "next"}

(* C11: a request for a page of the primary stream either is answered (the  *)
(* page joins the stream) or ends the run with the error it raised: the     *)
(* strategy on trial stays the same, no later strategy is tried, nothing is *)
(* written and the files and the records written so far stay as they were;  *)
(* a run that has raised does nothing more (only a new run follows, over    *)
(* the same files).                                                         *)
C11_PrimaryErrorAborts ==
    [][ /\ PrimaryRequestStep =>
             \/ /\ pc' = "pull"
                /\ err' = ""
                /\ Len(chain') = Len(chain) + 1
                /\ si' = si
             \/ /\ pc' = "raised"
                /\ err' \in CallErrors
                /\ si' = si
                /\ chain' = chain
                /\ out' = out
                /\ tmp' = tmp
                /\ persisted' = persisted
                /\ cbLog' = cbLog
        /\ pc = "raised" => (pc' = "init" /\ run' = run + 1 /\ out' = out /\ tmp' = tmp)
      ]_vars

C11_Witness ==
    /\ pc = "raised"
    /\ err \in CallErrors
    /\ lastReq.kind = "next"
    /\ cfg.nstrat = 2
    /\ si = 1
    /\ Len(persisted) = 1
    /\ out.exists


(* C12: a request of the run that ends in AuthError ends the run with that  *)
(* error: the related-list fetch never leaves an AuthError behind in a run  *)
(* that goes on, and a run whose error is AuthError has stopped.            *)
C12_AuthAborts ==
    /\ (minsErr = "MindatAuthError" => pc = "raised" /\ err = "MindatAuthError")
    /\ (err = "MindatAuthError" => pc = "raised")


\* the three typed errors of the transport
TypedErrors == {"MindatAuthError", "MindatHTTPError", "MindatJSONError"}

(* C13: a get_json call that has ended has returned a document or raised    *)
(* one of the three typed errors, also when the retry budget ran out on     *)
(* connection failures or read timeouts.                                    *)
C13_TypedOutcomes ==
    hpc = "done" => hresult \in {"ok"} \cup TypedErrors

\* the last attempt of the call is one the Retry object retries
RetryCause ==
    \/ hresp.kind \in {"connfail", "readtimeout"}
    \/ hresp.status \in StatusForcelist
    \/ hresp.retryAfter /\ hresp.status \in {413, 429, 503}

ReturnedEmpty == pc = "returned" /\ ~seenAny

\* what holds of a run that returned with nothing seen
EmptyOutcome ==
    ReturnedEmpty =>
        /\ err = ""
        /\ si = cfg.nstrat + 1
        /\ lastReq = (IF cfg.nstrat = 0 THEN NoRequest
                      ELSE [lastReq EXCEPT !.strat = cfg.nstrat])
        /\ lastReq.kind \in {"none", "list", "next"}
        /\ yielded = <<>>
        /\ persisted = <<>>
        /\ cbLog = <<>>
        /\ count = 0
        /\ out = startFile

(* C15: when no strategy produces a record (or there is no strategy) the    *)
(* resolver ends normally with nothing yielded, after the strategies were   *)
(* tried one by one in configured order, each opened once (the first        *)
(* request of strategy i follows the requests of strategy i - 1, and the    *)
(* last strategy was tried); nothing is written, the output file is as it   *)
(* was, and the progress callback was never called.                         *)
C15_EmptyResolution ==
    [][ /\ EmptyOutcome'
        /\ (lastReq' # lastReq /\ lastReq'.kind = "list") =>
              /\ ~started
              /\ lastReq'.strat = si
              /\ si <= cfg.nstrat
              /\ lastReq.strat = si - 1
        /\ (si' # si /\ pc' = "pull") => (si' = si + 1 /\ ~seenAny)
      ]_vars

C15_Witness ==
    /\ ReturnedEmpty
    /\ cfg.nstrat = 2
    /\ si = 3
    /\ lastReq.strat = 2
    /\ Len(chain) = 0


(* C16: with enrichment on, every key of the raw record is in the persisted *)
(* record with the value the raw record had for it.                         *)
C16_OriginalKeysKept ==
    (cfg.enrich /\ pc = "progress") =>
        \A k \in DictKeys(loc) :
            /\ DictHas(Last(persisted), k)
            /\ DictGet(Last(persisted), k) = DictGet(loc, k)


(* C17: while the process of a run is there, the arguments the progress     *)
(* callback has received are 1, 2, ..., n in this order, where n is the     *)
(* count and the number of records whose write completed in this run, less  *)
(* the one record that has just been written and not yet reported; so the   *)
(* callback is called once per persisted record, after its write, and not   *)
(* for a record whose processing raised.                                    *)
C17_ProgressOncePerRecord ==
    pc # "crashed" =>
        /\ cbLog = [k \in 1..Len(cbLog) |-> k]
        /\ count = Len(cbLog)
        /\ Len(cbLog) = (IF pc = "progress" THEN Len(persisted) - 1 ELSE Len(persisted))
        /\ Len(persisted) <= Len(yielded)
        /\ (pc = "raised" => Len(cbLog) < Len(yielded) \/ lastReq.kind \in {"none", "list", "next"})

C17_Witness ==
    /\ pc = "raised"
    /\ cbLog = <<1>>
    /\ Len(yielded) = 2
    /\ Len(persisted) = 1
    /\ lastReq.kind = "detail"


\* this step issues a request of the given kinds
RequestStep(kinds) == lastReq' # lastReq /\ lastReq'.kind \in kinds

\* every record the resolver has yielded but the last is written and reported
EarlierRecordsDone ==
    /\ Len(persisted) = Len(yielded) - 1
    /\ Len(cbLog) = Len(yielded) - 1

(* C18: the run is one thread of control that is at one place at a time     *)
(* (every request is answered before the next step); the detail request of  *)
(* a record is issued when every earlier record is written and reported,    *)
(* the related-list requests after its detail is merged and before its      *)
(* write, the write after both; and a follow-up page of the primary stream  *)
(* is requested only when every record of the pages served so far has been  *)
(* yielded, enriched, written and reported.                                 *)
C18_SequentialLazy ==
    [][ /\ RequestStep({"detail"}) =>
              /\ pc = "detail"
              /\ Last(yielded) = loc
              /\ lastReq'.target = DictGet(loc, "id")
              /\ EarlierRecordsDone
        /\ RequestStep({"minerals", "minerals_next"}) =>
              /\ pc = "minerals"
              /\ lastReq.kind \in {"detail", "minerals", "minerals_next"}
              /\ item = DictSet(loc, "detail", DetailDoc)
              /\ EarlierRecordsDone
        /\ (pc = "persist" /\ pc' \in {"writing_tmp", "writing_out"} /\ cfg.enrich) =>
              /\ lastReq.kind \in {"minerals", "minerals_next"}
              /\ lastReq.target \in {DictGet(loc, "id")} \cup {UrlName[k] : k \in 1..MaxMinPages}
              /\ DictGet(item, "detail") = DetailDoc
              /\ EarlierRecordsDone
        /\ RequestStep({"next"}) =>
              /\ pc = "pull"
              /\ buf = <<>>
              /\ yielded = Flatten(chain)
              /\ Len(persisted) = Len(yielded)
              /\ Len(cbLog) = Len(yielded)
              /\ (cfg.enrich => \A i \in 1..Len(persisted) : DictHas(persisted[i], "detail"))
        /\ pc' \in {"init", "pull", "detail", "minerals", "persist", "writing_tmp",
                    "writing_out", "progress", "returned", "raised", "crashed"}
      ]_vars

C18_Witness ==
    /\ pc = "pull"
    /\ cfg.enrich
    /\ lastReq.kind = "next"
    /\ Len(chain) = 2
    /\ Len(chain[1].items) = 1
    /\ Len(persisted) = 1
    /\ persisted[1] = << <<"id", "r1">>, <<"detail", DetailDoc>>,
                         <<"locality_minerals", MinsTok[2]>> >>
    /\ buf # <<>>


\* the prior file's text up to its closing "]" "}" still opens the file
PriorTextKept ==
    LET n == Len(startFile.data) - 2
    IN  /\ out.exists
        /\ n >= 0
        /\ Len(out.data) >= n
        /\ SubSeq(out.data, 1, n) = SubSeq(startFile.data, 1, n)

(* C19, as stated: whatever file is at the output path at startup, its      *)
(* contents are kept and appended to: the file goes on opening with the     *)
(* prior text, the run's records follow, and the run does not fail on the   *)
(* file.                                                                    *)
C19_AnyPriorKept ==
    (cfg.mode = "json" /\ startFile.exists) =>
        /\ PriorTextKept
        /\ (persisted # <<>> =>
               /\ LoadsDoc(out.data).ok
               /\ Len(LoadsDoc(out.data).val) >= Len(persisted)
               /\ SubSeq(LoadsDoc(out.data).val,
                         Len(LoadsDoc(out.data).val) - Len(persisted) + 1,
                         Len(LoadsDoc(out.data).val)) = persisted)
        /\ err # "KeyError"

(* C19, amended: when the output path holds a {"results": [...]} document   *)
(* at startup, at every moment of the run the file is a document holding    *)
(* the prior records in their order followed by the records appended in     *)
(* this run, so the number of records in the file never decreases; a prior  *)
(* file that does not parse is dropped at the first append (the file then   *)
(* holds the run's records only), and over a prior file that is JSON of     *)
(* another shape nothing is appended and the file stays as it was.          *)
C19_PriorDocKept ==
    (cfg.mode = "json" /\ startFile.exists) =>
        IF LoadsDoc(startFile.data).ok
        THEN /\ out.exists
             /\ LoadsDoc(out.data).ok
             /\ LoadsDoc(out.data).val = LoadsDoc(startFile.data).val \o persisted
             /\ err # "KeyError"
        ELSE IF LoadsJson(startFile.data).ok
        THEN /\ out = startFile
             /\ persisted = <<>>
        ELSE /\ out.exists
             /\ IF persisted = <<>> THEN out = startFile
                ELSE /\ LoadsDoc(out.data).ok
                     /\ LoadsDoc(out.data).val = persisted

C19_Witness ==
    /\ pc = "progress"
    /\ Len(LoadsDoc(startFile.data).val) = 2
    /\ Len(persisted) = 2
    /\ LoadsDoc(out.data).val = <<PriorRecord(1), PriorRecord(2)>> \o persisted


(* C20: whenever download_country_mines has returned its path, a file       *)
(* exists at that path, in JSON and in JSONL mode, also when the stream     *)
(* was empty.                                                               *)
C20_ArtifactExists ==
    pc = "returned" => out.exists


\* a run that stopped on the detail request of the record it was processing
RaisedOnDetail == pc = "raised" /\ lastReq.kind = "detail"

\* what holds of such a run
DetailErrorOutcome ==
    RaisedOnDetail =>
        /\ err \in CallErrors
        /\ lastReq.target = DictGet(loc, "id")
        /\ Last(yielded) = loc
        /\ Len(persisted) = Len(yielded) - 1
        /\ \A i \in 1..Len(persisted) : RecOf(persisted[i]) # RecOf(loc)
        /\ Len(cbLog) = Len(persisted)
        /\ (persisted # <<>> => WrittenLast(Last(persisted)))
        /\ (persisted = <<>> => out = startFile)

(* C21: a detail request either is answered (the detail is merged and the   *)
(* related-list fetch follows) or ends the run with the error it raised;    *)
(* the run then stands at that request: the record is not written, no       *)
(* related-list request was made for it, the callback was not called for    *)
(* it, the files are as the last completed write left them, and nothing     *)
(* more is fetched or written by this run.                                  *)
C21_DetailErrorPropagates ==
    [][ /\ RequestStep({"detail"}) =>
              \/ /\ pc' = "minerals"
                 /\ err' = ""
                 /\ item' = DictSet(item, "detail", DetailDoc)
              \/ /\ pc' = "raised"
                 /\ err' \in CallErrors
                 /\ out' = out
                 /\ tmp' = tmp
                 /\ persisted' = persisted
                 /\ cbLog' = cbLog
        /\ DetailErrorOutcome'
        /\ RaisedOnDetail => (pc' = "init" /\ out' = out /\ tmp' = tmp)
      ]_vars

C21_Witness ==
    /\ RaisedOnDetail
    /\ err = "MindatHTTPError"
    /\ Len(yielded) = 2
    /\ Len(persisted) = 1
    /\ buf = <<>>
    /\ Truthy(nextUrl)


(* C22: the first request of a stream goes to the list endpoint with        *)
(* base_params and page_size set to the configured page size, whatever      *)
(* page_size base_params had; every follow-up request goes to the locator   *)
(* the previous page gave as next, with no parameters; base_params is left  *)
(* as the resolver built it.                                                *)
C22_RequestParameters ==
    [][ /\ RequestStep({"list"}) =>
              /\ lastReq'.target = "localities"
              /\ DictKeys(lastReq'.params) = DictKeys(lastReq'.base) \cup {"page_size"}
              /\ DictGet(lastReq'.params, "page_size") = PageSize
              /\ \A k \in DictKeys(lastReq'.base) \ {"page_size"} :
                     DictGet(lastReq'.params, k) = DictGet(lastReq'.base, k)
              /\ lastReq'.base = BaseParams(si)
        /\ RequestStep({"next"}) =>
              /\ lastReq'.target = nextUrl
              /\ nextUrl = Last(chain).next
              /\ lastReq'.params = <<>>
      ]_vars

C22_Witness ==
    /\ lastReq.kind = "next"
    /\ lastReq.target = UrlName[1]
    /\ lastReq.params = <<>>
    /\ Len(chain) = 2
    /\ cfg.strats[si] = <<"page_size", "7">>


\* a body that is neither a list nor an object whose results is a list
Malformed(body) == body.type # "list" /\ ~(body.type = "dict" /\ body.rtype = "list")

\* the stream on trial has just been answered with a malformed page
AtMalformedPage == started /\ chain # <<>> /\ Malformed(Last(chain))

(* C23: a malformed page gives no record and no continuation and raises     *)
(* nothing: the stream has no next locator after it whatever next the body  *)
(* carried, no follow-up request is issued, the run goes on or returns      *)
(* without error, and every record of the earlier pages has been yielded.   *)
C23_MalformedPageEnds ==
    [][ /\ AtMalformedPage' =>
              /\ buf' = <<>>
              /\ nextUrl' = NullNext
              /\ err' = ""
              /\ pc' \in {"pull", "returned"}
              /\ (seenAny' => yielded' = Flatten(Front(chain')))
              /\ (~seenAny' => Flatten(Front(chain')) = <<>>)
        /\ AtMalformedPage => ~RequestStep({"next"})
        /\ (AtMalformedPage /\ pc = "pull" /\ pc' # "crashed") =>
              \/ pc' = "returned" /\ seenAny
              \/ pc' = "pull" /\ ~seenAny /\ si' = si + 1 /\ ~started'
      ]_vars

C23_Witness ==
    /\ pc = "returned"
    /\ Len(chain) = 2
    /\ Last(chain).type = "dict"
    /\ Last(chain).rtype = "other"
    /\ LeadsOn(Last(chain).next)
    /\ Len(yielded) = 2


\* the next a well-formed results page carries; a bare list and a malformed
\* body carry none
NextOf(body) ==
    IF body.type = "dict" /\ body.rtype = "list" THEN body.next ELSE NullNext

\* this step ends the stream on trial
StreamEndStep == started /\ pc = "pull" /\ (pc' = "returned" \/ si' = si + 1)

(* C24: the stream goes on exactly while the last page carries a next       *)
(* locator that is neither null/absent nor empty: every page served before  *)
(* the last one carried such a locator (so P pages take P requests), the    *)
(* stream ends only on a page without one, and on a page with one, with or  *)
(* without records, it does not end: the follow-up request is the only      *)
(* step once the page's records are taken.                                  *)
C24_EndsWhenNoNext ==
    [][ /\ started' =>
              /\ \A i \in 1..(Len(chain') - 1) : LeadsOn(NextOf(chain'[i]))
              /\ nextUrl' = NextOf(Last(chain'))
              /\ (pc' = "returned" => ~LeadsOn(NextOf(Last(chain'))))
        /\ StreamEndStep => (buf = <<>> /\ ~LeadsOn(NextOf(Last(chain))))
        /\ (started /\ pc = "pull" /\ buf = <<>> /\ LeadsOn(NextOf(Last(chain)))
                /\ pc' # "crashed") =>
              /\ RequestStep({"next"})
              /\ lastReq'.target = NextOf(Last(chain))
              /\ (pc' = "pull" => Len(chain') = Len(chain) + 1)
      ]_vars

C24_Witness ==
    /\ pc = "returned"
    /\ Len(chain) = 2
    /\ chain[1].items = <<>>
    /\ chain[1].next = UrlName[1]
    /\ chain[2].type = "dict"
    /\ chain[2].next = ""
    /\ Len(yielded) = 2


\* a body with its count hint taken out
EraseCount(body) == [body EXCEPT !.count = NoCount]

\* this step is the answer to a request for a page of the primary stream
PageAnswered == Len(chain') = Len(chain) + 1

(* C25: what the stream does is a function of the bodies with their count   *)
(* taken out: the records and the next locator the client takes from a      *)
(* page are those of the same page without count, what was yielded and is   *)
(* pending is the pages' results, the locator followed is the last page's   *)
(* next, no request carries anything of count, and the stream ends or goes  *)
(* on by next alone; so two service behaviours that differ only in count    *)
(* give the same requests and the same records.                             *)
C25_CountIgnored ==
    [][ /\ PageAnswered =>
              /\ buf' = ExtractPage(EraseCount(Last(chain')))[1]
              /\ nextUrl' = ExtractPage(EraseCount(Last(chain')))[3]
              /\ buf' = Last(chain').items
        /\ started' =>
              /\ yielded' \o buf' = Flatten(chain')
              /\ nextUrl' = NextOf(Last(chain'))
              /\ (pc' = "returned" => yielded' = Flatten(chain') /\ ~LeadsOn(nextUrl'))
        /\ RequestStep({"list", "next"}) =>
              /\ lastReq'.target = (IF started THEN NextOf(Last(chain)) ELSE "localities")
              /\ lastReq'.params = (IF started THEN <<>> ELSE SearchParams(BaseParams(si)))
        /\ StreamEndStep => (buf = <<>> /\ ~LeadsOn(NextOf(Last(chain))))
      ]_vars

C25_Witness ==
    /\ pc = "returned"
    /\ Len(chain) = 2
    /\ chain[1].count = "0"
    /\ Len(chain[1].items) = 1
    /\ chain[2].count = "99"
    /\ chain[2].next = NullNext
    /\ Len(yielded) = 2


(* C26: the first request of strategy i carries {format: json, country}     *)
(* merged with the strategy's (param, value) pair (the pair's value wins    *)
(* on a shared key) and is issued only when nothing has been yielded and    *)
(* the last request was one of strategy i - 1 (none for the first); a       *)
(* strategy is left for the next only when its stream has ended, with no    *)
(* next locator to follow and no record in any of its pages.                *)
C26_StrategiesInOrder ==
    [][ /\ RequestStep({"list"}) =>
              /\ lastReq'.strat = si
              /\ si \in 1..cfg.nstrat
              /\ lastReq.strat = si - 1
              /\ ~seenAny
              /\ yielded = <<>>
              /\ DictKeys(lastReq'.base) = {"format", "country", cfg.strats[si][1]}
              /\ DictGet(lastReq'.base, cfg.strats[si][1]) = cfg.strats[si][2]
              /\ (cfg.strats[si][1] # "format" => DictGet(lastReq'.base, "format") = "json")
              /\ (cfg.strats[si][1] # "country" => DictGet(lastReq'.base, "country") = Country)
        /\ si' # si =>
              /\ si' = si + 1
              /\ started
              /\ buf = <<>>
              /\ ~LeadsOn(NextOf(Last(chain)))
              /\ Flatten(chain) = <<>>
              /\ yielded = <<>>
        /\ (started /\ Flatten(chain) # <<>>) => si' = si
      ]_vars

C26_Witness ==
    /\ pc = "returned"
    /\ si = 2
    /\ lastReq.kind = "next"
    /\ lastReq.strat = 2
    /\ cfg.strats[2] = <<"country", "Peru">>
    /\ Len(yielded) = 2


\* the outcome the claim gives a final response: status first, then content
ClassOf(r) ==
    CASE r.status \in {401, 403} -> "MindatAuthError"
      [] r.status \notin {200, 401, 403} -> "MindatHTTPError"
      [] r.status = 200 /\ (~r.jsonCtype \/ ~r.parses) -> "MindatJSONError"
      [] OTHER -> "ok"

\* a final response is classified by status first, and one with a status of
\* the retryable set is final only when the budget is used up
FinalClassified ==
    (hpc = "done" /\ hresp.kind = "response") =>
        /\ hresult = ClassOf(hresp)
        /\ (hresp.status \in StatusForcelist => hattempts = RetriesTotal + 1)

\* the first answer was an error status outside 401/403 and the retryable set
FirstIsPlainError ==
    /\ hfirst.kind = "response"
    /\ hfirst.status \notin {200, 401, 403} \cup StatusForcelist

(* C27, as stated: a final response is classified by status first, then     *)
(* content; an error status outside the retryable set ends the call with    *)
(* HTTPError after one attempt, one inside it only after the budget is      *)
(* used up.                                                                 *)
C27_ClassifiedAfterOneAttempt ==
    /\ FinalClassified
    /\ (FirstIsPlainError =>
           /\ hattempts = 1
           /\ hpc \in {"done", "idle"}
           /\ hresult = "MindatHTTPError")

(* C27, amended: a final response is classified by status first, then       *)
(* content (401/403 AuthError whatever the body, any other non-200          *)
(* HTTPError, a 200 that is not JSON or does not parse DecodeError); an     *)
(* error status outside the retryable set ends the call with HTTPError      *)
(* after one attempt unless it is a 413 with a Retry-After header, which is *)
(* retried like a status of the set; a status of the set is final only      *)
(* after the budget is used up.                                             *)
C27_ClassifiedByStatusFirst ==
    /\ FinalClassified
    /\ ((FirstIsPlainError /\ ~(hfirst.status = 413 /\ hfirst.retryAfter)) =>
           /\ hattempts = 1
           /\ hpc \in {"done", "idle"}
           /\ hresult = "MindatHTTPError")
    /\ ((FirstIsPlainError /\ hfirst.status = 413 /\ hfirst.retryAfter /\ hattempts = 1) =>
           hpc = "sending")

C27_Witness ==
    /\ hpc = "done"
    /\ hattempts = 2
    /\ hfirst.status = 503
    /\ hresp.status = 401
    /\ ~hresp.jsonCtype
    /\ hresult = "MindatAuthError"


\* the records a results document on disk holds: none when there is no file
FileRecords(f) == IF f.exists /\ LoadsDoc(f.data).ok THEN LoadsDoc(f.data).val ELSE <<>>

\* the records the unchanged service returns to a run: those of the first
\* strategy whose stream holds any
ServiceRecords ==
    IF Flatten(svc.chains[1]) # <<>> THEN Flatten(svc.chains[1])
    ELSE Flatten(svc.chains[2])

(* C28: accumulating-mode resumption is file-level only: a second run of    *)
(* download_country_mines against an unchanged service starts again at the  *)
(* first strategy with nothing yielded, reloads the records the file held,  *)
(* and appends every record of the service again without deduplicating by   *)
(* id, so that after two complete runs over N records the file holds 2N:    *)
(* the N ids followed by the same N ids.                                    *)
C28_SecondRunAppendsAgain ==
    /\ (run = 2 /\ pc = "init") => (si = 1 /\ ~started /\ yielded = <<>> /\ lastReq = NoRequest)
    /\ (run = 2 /\ pc = "pull" /\ lastReq = NoRequest) =>
           NamesOf(acc.results) = NamesOf(FileRecords(startFile))
    /\ (run = 2 /\ pc = "returned") =>
           /\ NamesOf(persisted) = NamesOf(ServiceRecords)
           /\ NamesOf(FileRecords(out)) =
                  NamesOf(FileRecords(startFile)) \o NamesOf(ServiceRecords)
           /\ (NamesOf(FileRecords(startFile)) = NamesOf(ServiceRecords) =>
                  /\ Len(FileRecords(out)) = 2 * Len(ServiceRecords)
                  /\ NamesOf(FileRecords(out)) =
                         NamesOf(ServiceRecords) \o NamesOf(ServiceRecords))

C28_Witness ==
    /\ run = 2
    /\ pc = "returned"
    /\ cfg.enrich
    /\ Len(ServiceRecords) = 2
    /\ Len(FileRecords(out)) = 4
    /\ RecOf(FileRecords(out)[1]) = RecOf(FileRecords(out)[3])


(* C29: with enrich=False download_country_mines issues no detail and no    *)
(* related-list request: every request of the run is one of the primary     *)
(* stream, the loop never enters its enrichment steps, and each persisted   *)
(* record is the raw record as yielded, key for key and value for value     *)
(* (in the document on disk too, in JSON mode).                             *)
C29_NoEnrichment ==
    ~cfg.enrich =>
        /\ lastReq.kind \in {"none", "list", "next"}
        /\ pc \notin {"detail", "minerals"}
        /\ minsErr = ""
        /\ (pc \in {"persist", "writing_tmp", "writing_out", "progress"} =>
               item = loc /\ loc = Last(yielded))
        /\ (Running => /\ Len(persisted) <= Len(yielded)
                       /\ \A i \in 1..Len(persisted) : persisted[i] = yielded[i])
        /\ ((cfg.mode = "json" /\ pc = "progress") => Last(FileRecords(out)) = loc)

C29_Witness ==
    /\ ~cfg.enrich
    /\ pc = "progress"
    /\ Len(persisted) = 2
    /\ persisted[2] = loc
    /\ DictHas(loc, "detail")
    /\ DictGet(loc, "detail") = "raw"
    /\ lastReq.kind = "next"


\* this step is list_locality_minerals returning its list
MineralsReturn == pc = "minerals" /\ pc' = "persist" /\ minsErr' = ""

\* this step is list_locality_minerals left by an error of a page request
MineralsRaise ==
    /\ pc = "minerals"
    /\ \/ pc' = "raised"
       \/ pc' = "persist" /\ minsErr' # ""

(* C30: list_locality_minerals returns the concatenation, in page order and *)
(* in-page order, of the results of every page of the related list: while   *)
(* it runs its list is the concatenation of the pages served so far; it     *)
(* returns only when the last page served carries no next that leads on,    *)
(* every page before it having carried one; and when a page request raises  *)
(* the record gets no list at all, the error being what leaves the call.    *)
C30_RelatedListDrained ==
    [][ /\ (pc = "minerals" /\ pc' = "minerals") =>
               /\ mout' = Flatten(mpages')
               /\ Len(mpages') = Len(mpages) + 1
               /\ item' = item
               /\ lastReq'.kind = (IF mpages = <<>> THEN "minerals" ELSE "minerals_next")
               /\ (mpages # <<>> => lastReq'.target = NextOf(Last(mpages)))
        /\ MineralsReturn =>
               /\ mpages # <<>>
               /\ ~LeadsOn(NextOf(Last(mpages)))
               /\ \A i \in 1..(Len(mpages) - 1) : LeadsOn(NextOf(mpages[i]))
               /\ mout = Flatten(mpages)
               /\ item' = DictSet(item, "locality_minerals", MinsTok[Len(Flatten(mpages)) + 1])
               /\ lastReq' = lastReq
        /\ MineralsRaise =>
               /\ item' = item
               /\ ~DictHas(item', "locality_minerals")
               /\ lastReq'.kind \in {"minerals", "minerals_next"}
               /\ (IF pc' = "raised" THEN err' # "" ELSE minsErr' # "")
      ]_vars

C30_Witness ==
    /\ pc = "persist"
    /\ minsErr = ""
    /\ lastReq.kind = "minerals_next"
    /\ DictHas(item, "locality_minerals")
    /\ DictGet(item, "locality_minerals") = MinsTok[4]


\* the extracted items of pages 1..n of the listing, in page order
RECURSIVE ExtractedUpTo(_)
ExtractedUpTo(n) ==
    IF n = 0 THEN <<>>
    ELSE ExtractedUpTo(n - 1) \o ProcessedItems(GeoPage(n, geo.pages).results)

\* every run before the last was interrupted or stopped by a failed fetch,
\* and the last one ran to completion
ResumedToCompletion ==
    /\ geo.pc = "done"
    /\ Len(geo.ends) >= 2
    /\ Last(geo.ends) = "complete"
    /\ \A i \in 1..(Len(geo.ends) - 1) : geo.ends[i] \in {"interrupted", "failed"}

(* C31: the export_geomaterials fetcher resumes without loss or             *)
(* duplication: when main was interrupted by the user or stopped by a       *)
(* failed page fetch and the script is then run again to completion, the    *)
(* data file holds the extracted items of every page exactly once and in    *)
(* page order.                                                              *)
C31_ResumeExactlyOnce ==
    ResumedToCompletion =>
        /\ geo.dataFile.exists
        /\ geo.dataFile.ok
        /\ geo.dataFile.data = ExtractedUpTo(geo.pages)

(* C32: after export_geomaterials main finishes a complete download (the    *)
(* loop ended because the last page had no next) the progress tracking      *)
(* file last_page_url.txt does not exist when main returns.                 *)
C32_TrackingFileRemoved ==
    (geo.pc = "done" /\ Last(geo.ends) = "complete") => ~geo.urlFile.exists


\* what a fetch_page call in progress or over looks like
FetchPageShape ==
    fp.pc # "idle" =>
        /\ Len(fp.errors) + (IF fp.result.kind = "page" \/ fp.pc = "raised" THEN 1 ELSE 0)
               <= fp.retries
        /\ fp.pc \in {"try", "sleep"} => fp.attempt < fp.retries
        /\ fp.sleeps = [i \in 1..Len(fp.sleeps) |-> 2 ^ (i - 1)]
        /\ Len(fp.sleeps) =
               (CASE fp.pc = "sleep" -> Len(fp.errors) - 1
                  [] fp.pc = "returned" /\ fp.result.kind = "None" ->
                         (IF fp.retries = 0 THEN 0 ELSE fp.retries - 1)
                  [] OTHER -> Len(fp.errors))
        /\ (fp.pc = "returned" /\ fp.result.kind = "page") =>
               fp.result.page = PageAt(fp.url, geo.pages)
        /\ (fp.pc = "returned" /\ fp.result.kind = "None") => Len(fp.errors) = fp.retries
        /\ Len(fp.errors) = fp.retries => (fp.pc = "returned" /\ fp.result.kind = "None")
        /\ fp.pc = "raised" => fp.raised \notin RequestExceptions
        /\ \A i \in 1..Len(fp.errors) : fp.errors[i] \in RequestExceptions

(* C33: fetch_page makes at most `retries` attempts for a URL, returns the  *)
(* body of the first successful attempt without further attempts, waits     *)
(* 2^attempt seconds (1, 2, 4, ...) between consecutive attempts but not    *)
(* after the last one, and returns None, never raising a request error,     *)
(* when every attempt fails.                                                *)
C33_FetchPageRetries ==
    [][ /\ FetchPageShape'
        /\ fp.pc = "returned" =>
               \/ fp' = fp
               \/ fp'.errors = <<>> /\ fp'.sleeps = <<>> /\ fp'.attempt = 0
               \/ fp' = FpIdle
      ]_vars

C33_Witness ==
    /\ fp.pc = "returned"
    /\ fp.result.kind = "None"
    /\ fp.retries = 3
    /\ Len(fp.errors) = 3
    /\ fp.sleeps = <<1, 2>>


\* the values the claim calls empty
EmptyAsClaimed(v) ==
    \/ v.t = "none"
    \/ v.t = "num" /\ v.s = "0"
    \/ v.t = "str" /\ v.s \in {"", " ", "0"}
    \/ v.t \in {"list", "dict"} /\ v.s \in {"", "[]"} /\ v.d = <<>>

\* the keys the nested dicts of a record flatten to
FlattenedKeys(rec) ==
    UNION {DictKeys(FlattenDict(rec[i][2].d, rec[i][1])) :
              i \in {j \in 1..Len(rec) : rec[j][2].t = "dict"}}

MergedId(locality) ==
    IF HasId(CleanLocalityData(locality))
    THEN DictGet(CleanLocalityData(locality), <<"id">>)
    ELSE Scalar("none", "None")

\* the input localities whose id an earlier input locality already had
DuplicatingInputs ==
    {i \in 1..Len(merger.file) :
        /\ MergedId(merger.file[i]).t # "none"
        /\ \E j \in 1..(i - 1) : MergedId(merger.file[j]) = MergedId(merger.file[i])}

(* C35: the merger removes duplicates: after process_data, merged_data      *)
(* contains no two records with the same id, and the duplicates_removed     *)
(* statistic equals the number of input localities that duplicated an       *)
(* earlier one.                                                             *)
C35_DuplicatesRemoved ==
    merger.pc = "done" =>
        /\ \A i, j \in 1..Len(merger.merged_data) :
               DictGet(merger.merged_data[i], <<"id">>) = DictGet(merger.merged_data[j], <<"id">>)
                   => i = j
        /\ merger.stats.duplicates_removed = Cardinality(DuplicatingInputs)


\* the records on disk in the configured format: none when there is no file
OnDisk == IF out.exists THEN Reloaded(out) ELSE <<>>

(* C36: the configured checkpoint cadence has no effect: for every value of *)
(* checkpoint_every, download_country_mines persists after every single     *)
(* record. Between two records the file holds every record yielded so far,  *)
(* when a persist step is over it holds the record just built as its last,  *)
(* and each record changes the file (one rewrite of the document, or one    *)
(* appended line), so the file states do not depend on checkpoint_every.    *)
C36_CheckpointIgnored ==
    [][ /\ pc' \in {"pull", "returned"} =>
               /\ OnDisk' = yielded'
               /\ Len(OnDisk') = count'
        /\ pc' = "progress" =>
               /\ OnDisk' = yielded'
               /\ Last(OnDisk') = item'
               /\ Len(OnDisk') = count' + 1
        /\ (pc = "persist" /\ pc' = "progress") => out' # out
        /\ persisted' # persisted =>
               /\ persisted' = Append(persisted, item)
               /\ OnDisk' = persisted'
      ]_vars

C36_Witness ==
    /\ cfg.checkpoint_every = 3
    /\ cfg.mode = "json"
    /\ pc = "pull"
    /\ count = 1
    /\ Len(OnDisk) = 1
    /\ OnDisk = yielded


\* the locators search_localities has asked for so far in this stream
Visited == {chain[i].next : i \in 1..(Len(chain) - 1)}

\* the stream of the current strategy is exhausted
Exhausted == pc = "pull" /\ started /\ buf = <<>> /\ ~Truthy(nextUrl)

(* C37: search_localities keeps no memory of visited locators. Against a    *)
(* service whose pages' next locators form a cycle the stream never reaches *)
(* its exhausted state and the run never returns: with the page's records   *)
(* taken, the stream holds a locator and asks for it, visited or not, and   *)
(* yields that page's records again. Whenever a stream is exhausted, the    *)
(* last page the service returned carried no next.                          *)
C37_CycleNeverExhausted ==
    [][ /\ Cyclic(svc.chains[1]) => (~Exhausted' /\ pc' # "returned")
        /\ (pc = "pull" /\ started /\ buf = <<>> /\ nextUrl \in Visited
              /\ Len(chain) < MaxCyclePages) =>
               /\ ENABLED SearchNextRequest
               /\ lastReq' # lastReq \/ chain' # chain =>
                      /\ lastReq' = Request("next", nextUrl)
                      /\ pc' # "raised" =>
                            /\ chain' = Append(chain, svc.chains[1][UrlIndex(nextUrl) + 1])
                            /\ buf' = chain'[Len(chain')].items
                            /\ \E i \in 1..Len(yielded) : yielded[i] = buf'[1]
        /\ (Exhausted' \/ pc' = "returned") =>
               /\ chain' # <<>>
               /\ ~Truthy(ExtractPage(chain'[Len(chain')])[3])
      ]_vars

C37_Witness ==
    /\ Cyclic(svc.chains[1])
    /\ Len(chain) = MaxCyclePages
    /\ pc = "pull"
    /\ \E i, j \in 1..Len(yielded) : i < j /\ yielded[i] = yielded[j]
    /\ \E i, j \in 1..Len(chain) : i < j /\ chain[i] = chain[j]
    /\ Truthy(nextUrl) /\ nextUrl \in Visited


\* the output file at startup does not parse / parses to something that is
\* no object with a list-valued results
StartUnparsable == startFile.exists /\ ~LoadsJson(startFile.data).ok
StartWrongShape ==
    /\ startFile.exists
    /\ LoadsJson(startFile.data).ok
    /\ ~(LoadsJson(startFile.data).type = "dict" /\ LoadsJson(startFile.data).rtype = "list")

(* C38: JsonAccumulator over an existing file. When the file does not parse *)
(* as JSON the accumulator starts from an empty results list, and the first *)
(* append replaces the file with a document of that one record. When the    *)
(* file parses but is no object with a list-valued results, construction    *)
(* succeeds, and the first append_and_save raises before anything is        *)
(* written: the file stays as it was and no temp file appears.              *)
C38_UnparsableVsWrongShape ==
    [][ /\ (StartUnparsable /\ pc = "init") =>
               (pc' = "pull" => acc' = EmptyDoc /\ out' = startFile)
        /\ (StartUnparsable /\ pc' = "progress" /\ Len(persisted') = 1) =>
               /\ out'.exists
               /\ out'.data = DumpsDoc([ok |-> TRUE, results |-> <<item'>>])
               /\ LoadsDoc(out'.data).val = persisted'
        /\ (StartWrongShape /\ pc = "init") =>
               /\ pc' \in {"init", "pull", "crashed"}
               /\ ENABLED MakeWriter
               /\ pc' = "pull" => (~acc'.ok /\ err' = "" /\ out' = startFile)
        /\ (StartWrongShape /\ pc = "persist") =>
               (pc' # "persist" =>
                   /\ pc' \in {"raised", "crashed"}
                   /\ pc' = "raised" =>
                         err' \in {"KeyError", "TypeError", "AttributeError"})
        /\ StartWrongShape' =>
               /\ out' = startFile'
               /\ ~tmp'.exists
               /\ persisted' = <<>>
               /\ pc' \notin {"writing_tmp", "progress"}
      ]_vars

C38_Witness ==
    /\ StartWrongShape
    /\ LoadsJson(startFile.data).type = "list"
    /\ pc = "raised"
    /\ err = "TypeError"
    /\ yielded # <<>>
    /\ out = startFile
    /\ ~tmp.exists


\* the record in hand has no id key
NoIdInHand == loc # NoRecord /\ ~DictHas(loc, "id")

\* the requests enrichment issues
EnrichRequests == {"detail", "minerals", "minerals_next"}

(* C39: with enrichment on, a record of the primary stream without an id    *)
(* key aborts the run with a KeyError raised before any detail or related-  *)
(* list request is issued for it: from its yield to the abort no request is *)
(* issued (the last request stays the page fetch or the enrichment of the   *)
(* record before it), the record is not persisted, and the records          *)
(* persisted before it are still what the output file holds. With           *)
(* enrichment off the same record is persisted like any other.              *)
C39_NoIdAborts ==
    [][ /\ (pc = "detail" /\ NoIdInHand) =>
               /\ ENABLED FetchDetail
               /\ pc' # pc =>
                     /\ pc' = "raised"
                     /\ err' = "KeyError"
                     /\ lastReq' = lastReq
                     /\ out' = out /\ tmp' = tmp
                     /\ persisted' = persisted
        /\ (cfg.enrich /\ NoIdInHand') =>
               /\ pc' \in {"detail", "raised"}
               /\ lastReq' = lastReq
               /\ lastReq'.kind \in EnrichRequests =>
                      /\ Len(yielded') > 1
                      /\ lastReq'.kind \in {"detail", "minerals"} =>
                             lastReq'.target = RecOf(yielded'[Len(yielded') - 1])
               /\ Len(persisted') = Len(yielded') - 1
               /\ NamesOf(persisted') = NamesOf(SubSeq(yielded', 1, Len(yielded') - 1))
               /\ OnDisk' = persisted'
               /\ \A i \in 1..Len(persisted') : DictHas(persisted'[i], "id")
        /\ (~cfg.enrich /\ pc = "pull" /\ pc' # "pull" /\ buf # <<>>) =>
               /\ pc' = "persist"
               /\ item' = Head(buf)
        /\ (~cfg.enrich /\ pc = "persist") =>
               IF cfg.mode = "json" THEN ENABLED AppendAndSave
               ELSE ENABLED WriteOneOpen
        /\ (~cfg.enrich /\ pc' = "progress") =>
               /\ Last(OnDisk') = item'
               /\ OnDisk' = yielded'
               /\ persisted' = yielded'
        /\ ~cfg.enrich => (err' # "KeyError" /\ pc' # "detail")
      ]_vars

C39_Witness ==
    /\ cfg.enrich
    /\ pc = "raised"
    /\ err = "KeyError"
    /\ NoIdInHand
    /\ Len(yielded) = 2
    /\ Len(persisted) = 1
    /\ OnDisk = persisted
    /\ DictHas(persisted[1], "detail")

====
